---- MODULE Spec2Model ----
(***************************************************************************)
(* BitRag ingestion pipeline.                                              *)
(*                                                                         *)
(* Two state machines share this module:                                   *)
(*   - the event source adapters of src/kafka/kafka_producers.py           *)
(*     (WhaleTransactionProducer, CryptoNewsProducer), specification       *)
(*     SpecAdapter;                                                        *)
(*   - the consumer process of src/pathway/data_processor.py               *)
(*     (BitcoinDataProcessor with its ProcessingStats), the relational     *)
(*     tables of src/database/setup_postgres.py and the Milvus             *)
(*     collection news_embeddings: one specification per topic,            *)
(*     SpecPrices, SpecTransactions and Spec (news and the index).         *)
(***************************************************************************)
EXTENDS Integers, Sequences, FiniteSets, TLC

VARIABLES
    \* ---- adapter (kafka_producers.py) ----
    adapter,            \* which producer object this is: "tx" or "news"
    last_processed,     \* self.last_processed_tx / self.last_processed_news
    polls,              \* number of calls of fetch_and_send_* so far
    cycles,             \* the last three calls, oldest first: status and keys fetched of each
    last_poll,          \* the last call of fetch_and_send_*: keys fetched, send_message calls made
    \* ---- consumer process (data_processor.py) ----
    pc,                 \* position of run(): "start" or "streaming"
    pg_failed_tx,       \* the psycopg2 connection is inside an aborted transaction
    bitcoin_prices,     \* rows of table bitcoin_prices
    whale_transactions, \* rows of table whale_transactions
    crypto_news,        \* rows of table crypto_news
    crypto_news_id_seq, \* last value handed out by the SERIAL sequence of crypto_news.id
    news_embeddings,    \* entities of the Milvus collection news_embeddings
    milvus_auto_id,     \* last auto_id primary key handed out by Milvus
    stats,              \* self.monitor.stats (ProcessingStats)
    calls,              \* number of store_* calls and restarts so far (all processes)
    last,               \* the last handler call: its arguments and what it returned
    history_rows,       \* ids of the crypto_news rows at the last two reconciliation passes
    topic,              \* the topic whose sink the consumer task of this behaviour serves
    \* ---- initial connections (connect_with_retries, setup_connections_with_retries) ----
    conn_target,        \* "bus": a producer's KafkaProducer; "stores": PostgreSQL and Milvus
    conn_attempts,      \* how each attempt made so far ended, in order
    conn_sleeps,        \* number of time.sleep(retry_delay) calls made so far
    conn_state,         \* "connecting", "connected", or "fatal" (the method raised)
    \* ---- tasks updating one ProcessingStats object at the same time ----
    tasks,              \* per task: the update it is in, its argument, the value it read
    applied,            \* per counter: the sum of the increments of the finished updates
    \* ---- the scheduler loop of main() (kafka_producers.py) ----
    now,                \* minutes since main() registered the jobs
    next_run,           \* per job: the time schedule will run it next
    running,            \* the poll in progress: its job and whether schedule started it, or no_poll
    startup,            \* the direct calls of main() still to make, in order
    \* ---- the sink callbacks as tasks on the one connection self.pg_conn ----
    writer,             \* per topic: its batch is idle or has executed its statements
    open_tx,            \* rows written in the connection's open transaction: topic and batch
    durable,            \* rows committed
    conn_op,            \* the last commit or rollback: who issued it, what it committed or discarded
    \* ---- one _make_request call of a collector ----
    req_collector,      \* whose _make_request this is: price or tx
    req_attempts,       \* what each session.get so far ended in, in order
    req_waits,          \* the time.sleep made after each failed attempt, in seconds
    req_state,          \* calling, returned, or raised
    req_result,         \* what the call returned: json or None
    \* ---- one get_whale_transactions / get_historical_news call ----
    fetch_collector,    \* whose fetch this is: tx or news
    fetch_feed,         \* the items upstream holds, in the order it serves them
    fetch_page,         \* number of page requests made so far
    fetch_items,        \* positions in the feed of the items collected so far, in order
    fetch_state,        \* fetching, or why the loop ended: boundary, exhausted, failed
    \* ---- ProgressMonitor: the background loop and stop() ----
    mon_running,        \* self.running
    loop_pc,            \* the loop thread: check, get_stats, dump, sleep, or ended
    loop_stats,         \* the snapshot the loop thread built and has not yet written
    stop_pc,            \* stop(): not_called, join, get_stats, dump, or returned
    stop_stats,         \* the snapshot stop() built and has not yet written
    progress_file,      \* the snapshot in processing_progress.json, or no_file
    \* ---- publish and consume order on the bus ----
    published,          \* number of send_message calls made so far; the call number identifies the event
    send_log,           \* result of every send_message call, in call order
    partition_log,      \* per topic and partition, the events the broker appended, in append order
    read_offset,        \* per topic and partition, how many events the reader has handed over
    processed,          \* events in the order the consumer's handlers processed them
    \* ---- get_extended_historical_data ----
    chunk_interval,     \* interval argument: day or hour
    chunk_start,        \* start date, in days
    chunk_end,          \* end date, in days
    current_end,        \* current_end of the chunk loop
    chunks_processed,   \* non-empty chunks accumulated so far
    all_data,           \* timestamps of the accumulated rows, in frame order
    chunk_pc,           \* idle, enter, loop, after_loop, returned, returned_one_call
    chunk_result        \* timestamps of the returned frame, in frame order

adapterVars == <<adapter, last_processed, polls, cycles, last_poll>>
connVars == <<conn_target, conn_attempts, conn_sleeps, conn_state>>
trackerVars == <<tasks, applied>>
schedVars == <<now, next_run, running, startup>>
shareVars == <<writer, open_tx, durable, conn_op>>
requestVars == <<req_collector, req_attempts, req_waits, req_state, req_result>>
fetchVars == <<fetch_collector, fetch_feed, fetch_page, fetch_items, fetch_state>>
monitorVars == <<mon_running, loop_pc, loop_stats, stop_pc, stop_stats, progress_file>>
orderVars == <<published, send_log, partition_log, read_offset, processed>>
chunkVars == <<chunk_interval, chunk_start, chunk_end, current_end, chunks_processed, all_data, chunk_pc, chunk_result>>
lateVars == <<orderVars, chunkVars>>
auxVars == <<schedVars, shareVars, requestVars, fetchVars, monitorVars, lateVars>>
processorVars == <<pc, pg_failed_tx, bitcoin_prices, whale_transactions, crypto_news,
                   crypto_news_id_seq, news_embeddings, milvus_auto_id, stats, calls, last,
                   history_rows, topic>>
coreVars == <<adapterVars, processorVars, connVars, trackerVars>>
vars == <<adapter, last_processed, polls, cycles, last_poll, pc, pg_failed_tx, bitcoin_prices,
          whale_transactions, crypto_news, crypto_news_id_seq, news_embeddings,
          milvus_auto_id, stats, calls, last, history_rows, topic,
          conn_target, conn_attempts, conn_sleeps, conn_state, tasks, applied,
          now, next_run, running, startup,
          writer, open_tx, durable, conn_op,
          req_collector, req_attempts, req_waits, req_state, req_result,
          fetch_collector, fetch_feed, fetch_page, fetch_items, fetch_state,
          mon_running, loop_pc, loop_stats, stop_pc, stop_stats, progress_file,
          published, send_log, partition_log, read_offset, processed,
          chunk_interval, chunk_start, chunk_end, current_end, chunks_processed, all_data, chunk_pc, chunk_result>>

(***************************************************************************)
(* Bounds of the model.                                                    *)
(***************************************************************************)
MaxPolls == 3      \* polls of one adapter
MaxFetch == 2      \* rows one fetch returns
MaxCalls == 3      \* handler calls and restarts of the consumer process
MaxBatch == 2      \* records in one batch handed to a store_* handler
NumTasks == 2      \* tasks that update the counters of one ProcessingStats object

Range(s) == {s[i] : i \in DOMAIN s}
SeqsUpTo(S, n) == UNION {[1..k -> S] : k \in 0..n}

(***************************************************************************)
(* Event source adapters: kafka_producers.py                               *)
(***************************************************************************)
\* The two adapters that keep a window, as objects whose constructor has run
\* (last_processed_tx = set() / last_processed_news = set()).
Adapters == {"tx", "news"}
Keys == {"A", "B", "C"}          \* natural keys: tx_hash values / link values

\* The rows a fetch can return, in DataFrame order (a key may occur in two rows).
FetchResults == SeqsUpTo(Keys, MaxFetch)

\* set(whale_txs['tx_hash']) / set(news_data['link'])
current_keys(rows) == Range(rows)

\* Faulty variant: the window is not subtracted.
new_keys_unfiltered(rows, window) == current_keys(rows)

\* current_tx_hashes - self.last_processed_tx / current_urls - self.last_processed_news
new_keys(rows, window) == current_keys(rows) \ window

\* whale_txs[whale_txs['tx_hash'].isin(new_tx_hashes)]: the rows kept, in order
new_rows(rows, window) == SelectSeq(rows, LAMBDA k : k \in new_keys(rows, window))

\* Building the event dict inside the loop can raise only in the transaction
\* adapter (float(tx['value_btc']), int(tx['input_count']), int(tx['output_count']));
\* the news loop only copies fields.
loop_can_raise(a) == a = "tx"

\* Faulty variant: a fetch that returns nothing clears the window.
window_after_cleared_on_empty(rows, window, loop_ended) ==
    IF loop_ended /\ rows = <<>> THEN {}
    ELSE IF loop_ended /\ new_keys(rows, window) # {} THEN current_keys(rows) ELSE window

\* Faulty variant: the window is assigned although the publish loop raised.
window_after_despite_raise(rows, window, loop_ended) ==
    IF rows # <<>> /\ new_keys(rows, window) # {}
    THEN current_keys(rows) ELSE window

\* Faulty variant: the window is merged with the current keys instead of replaced.
window_after_merged(rows, window, loop_ended) ==
    IF loop_ended /\ rows # <<>> /\ new_keys(rows, window) # {}
    THEN window \cup current_keys(rows) ELSE window

\* Faulty variant: the window is assigned before the "no new keys" return.
window_after_early(rows, window, loop_ended) ==
    IF loop_ended /\ rows # <<>> THEN current_keys(rows) ELSE window

\* self.last_processed_tx = current_tx_hashes (line 134) / self.last_processed_news =
\* current_urls (line 175): reached only past the two early returns (empty fetch, no
\* new key) and only when the loop ended without raising.
window_after(rows, window, loop_ended) ==
    IF loop_ended /\ rows # <<>> /\ new_keys(rows, window) # {}
    THEN current_keys(rows) ELSE window

\* What one call did: its outcome, the keys fetched, the send_message calls in order.
poll_record(status, keys, sends) == [status |-> status, keys |-> keys, sends |-> sends]

\* The history kept for the three-cycle scenarios: the last three calls.
remember(hist, c) ==
    IF Len(hist) < 3 THEN Append(hist, c) ELSE <<hist[2], hist[3], c>>

\* One call of fetch_and_send_transactions / fetch_and_send_news.
\*   fetch_raises : the collector raised (anything but a RequestException)
\*   rows         : the rows the collector returned
\*   raise_at     : 0, or the index of the new row whose dict construction raises
\*   acks         : send_message's result for each new row
fetch_and_send ==
    /\ polls < MaxPolls
    /\ polls' = polls + 1
    /\ \E fetch_raises \in BOOLEAN :
       \E rows \in (IF fetch_raises THEN {<<>>} ELSE FetchResults) :
         LET todo == new_rows(rows, last_processed) IN
         \E raise_at \in (IF loop_can_raise(adapter) THEN 0..Len(todo) ELSE {0}) :
           LET n == IF raise_at = 0 THEN Len(todo) ELSE raise_at - 1 IN
           \E acks \in [1..n -> BOOLEAN] :
             LET sends == [i \in 1..n |-> [key |-> todo[i], ok |-> acks[i]]]
                 status == IF fetch_raises THEN "fetch_error"
                           ELSE IF rows = <<>> THEN "empty"
                           ELSE IF new_keys(rows, last_processed) = {} THEN "no_new"
                           ELSE IF raise_at # 0 THEN "raised"
                           ELSE "done"
             IN /\ last_poll' = poll_record(status, current_keys(rows), sends)
                /\ cycles' = remember(cycles, [status |-> status, keys |-> current_keys(rows)])
                /\ last_processed' = window_after(rows, last_processed, ~fetch_raises /\ raise_at = 0)
    /\ UNCHANGED <<adapter, processorVars, connVars, trackerVars, auxVars>>

(***************************************************************************)
(* Consumer process: data_processor.py                                     *)
(*                                                                         *)
(* Field values are drawn from the column domains of setup_postgres.py     *)
(* (numbers already at the scale of their NUMERIC column).                 *)
(***************************************************************************)
Timestamps == {1, 25}            \* hours
Variants == {1, 2}               \* two payloads per natural key
TxHashes == {"h1", "h2"}
Links == {"l1", "l2"}

\* timestamp.date() in parse_price_data
date_of(t) == t \div 24

\* What parse_price_data / parse_whale_transaction / parse_news_data return.
ParsedPrices ==
    {[timestamp |-> t, price |-> 100 * v, market_cap |-> 10 * v, volume |-> v,
      date |-> date_of(t)] : t \in Timestamps, v \in Variants}
ParsedTransactions ==
    {[tx_hash |-> h, block_hash |-> "", timestamp |-> 1, value_btc |-> 100 * v, fee |-> 0,
      size |-> 0, input_count |-> v, output_count |-> 1, is_coinbase |-> FALSE]
       : h \in TxHashes, v \in Variants}
ParsedNews ==
    {[title |-> v, link |-> l, summary |-> 10 * v, published_date |-> 1, source |-> "feed"]
       : l \in Links, v \in Variants}

\* list(prices) / list(transactions) / list(news_items): what the sink hands over
Batches(S) == SeqsUpTo(S, MaxBatch)

\* ---- ProcessingStats ----
NewStats == [prices_processed |-> 0, transactions_processed |-> 0, news_processed |-> 0,
             embeddings_generated |-> 0, errors |-> 0]
\* Faulty variant: the counter is advanced by one per call (update_price's default count).
update_price_by_one(st, count) == [st EXCEPT !.prices_processed = @ + 1]
update_price(st, count) == [st EXCEPT !.prices_processed = @ + count]
update_transaction(st, count) == [st EXCEPT !.transactions_processed = @ + count]
update_news(st, count) == [st EXCEPT !.news_processed = @ + count]
update_embeddings(st, count) == [st EXCEPT !.embeddings_generated = @ + count]
record_error(st) == [st EXCEPT !.errors = @ + 1]

\* Faulty variant: CREATE_TABLES also creates a relation news_embeddings.
pg_tables_with_news_embeddings ==
    {"bitcoin_prices", "whale_transactions", "crypto_news", "news_embeddings"}

\* ---- the relational tables ----
\* CREATE_TABLES of setup_postgres.py: the relations that exist in the database.
pg_tables == {"bitcoin_prices", "whale_transactions", "crypto_news"}

\* Faulty variant: ON CONFLICT (timestamp) DO NOTHING.
upsert_price_do_nothing(table, p) ==
    IF \E r \in table : r.timestamp = p.timestamp THEN table ELSE table \cup {p}

\* INSERT INTO bitcoin_prices ... ON CONFLICT (timestamp) DO UPDATE SET price, market_cap,
\* volume = EXCLUDED.*  (date and the key are not assigned)
upsert_price(table, p) ==
    IF \E r \in table : r.timestamp = p.timestamp
    THEN {IF r.timestamp = p.timestamp
          THEN [r EXCEPT !.price = p.price, !.market_cap = p.market_cap, !.volume = p.volume]
          ELSE r : r \in table}
    ELSE table \cup {p}

\* Faulty variant: ON CONFLICT (tx_hash) DO UPDATE SET <all columns>.
insert_transaction_do_update(table, tx) ==
    {r \in table : r.tx_hash # tx.tx_hash} \cup {tx}

\* INSERT INTO whale_transactions ... ON CONFLICT (tx_hash) DO NOTHING
insert_transaction(table, tx) ==
    IF \E r \in table : r.tx_hash = tx.tx_hash THEN table ELSE table \cup {tx}

\* execute_batch(cursor, query, [...]): the statements run one after the other
RECURSIVE execute_batch_prices(_, _)
execute_batch_prices(table, batch) ==
    IF batch = <<>> THEN table
    ELSE execute_batch_prices(upsert_price(table, Head(batch)), Tail(batch))

RECURSIVE execute_batch_transactions(_, _)
execute_batch_transactions(table, batch) ==
    IF batch = <<>> THEN table
    ELSE execute_batch_transactions(insert_transaction(table, Head(batch)), Tail(batch))

\* Faulty variant: ON CONFLICT (link) DO UPDATE SET <all columns> RETURNING id.
insert_news_do_update(table, seq, news) ==
    IF \E r \in table : r.link = news.link
    THEN LET old == CHOOSE r \in table : r.link = news.link IN
         [table |-> (table \ {old}) \cup
                    {[id |-> old.id, title |-> news.title, link |-> news.link,
                      summary |-> news.summary, published_date |-> news.published_date,
                      source |-> news.source]},
          seq |-> seq + 1, id |-> old.id]
    ELSE [table |-> table \cup {[id |-> seq + 1, title |-> news.title, link |-> news.link,
                                 summary |-> news.summary,
                                 published_date |-> news.published_date,
                                 source |-> news.source]},
          seq |-> seq + 1, id |-> seq + 1]

\* Faulty variant: on a conflict the statement returns the id of the stored row.
insert_news_returning_stored_id(table, seq, news) ==
    IF \E r \in table : r.link = news.link
    THEN [table |-> table, seq |-> seq + 1,
          id |-> (CHOOSE r \in table : r.link = news.link).id]
    ELSE [table |-> table \cup {[id |-> seq + 1, title |-> news.title, link |-> news.link,
                                 summary |-> news.summary,
                                 published_date |-> news.published_date,
                                 source |-> news.source]},
          seq |-> seq + 1, id |-> seq + 1]

\* Faulty variant: on a conflict the statement returns the id it drew from the sequence.
insert_news_returning_drawn_id(table, seq, news) ==
    IF \E r \in table : r.link = news.link
    THEN [table |-> table, seq |-> seq + 1, id |-> seq + 1]
    ELSE [table |-> table \cup {[id |-> seq + 1, title |-> news.title, link |-> news.link,
                                 summary |-> news.summary,
                                 published_date |-> news.published_date,
                                 source |-> news.source]},
          seq |-> seq + 1, id |-> seq + 1]

\* INSERT INTO crypto_news ... ON CONFLICT (link) DO NOTHING RETURNING id, then
\* cursor.fetchone(). The id default draws from the sequence for every attempted row;
\* id = 0 stands for "no row returned" (result is None).
insert_news(table, seq, news) ==
    IF \E r \in table : r.link = news.link
    THEN [table |-> table, seq |-> seq + 1, id |-> 0]
    ELSE [table |-> table \cup {[id |-> seq + 1, title |-> news.title, link |-> news.link,
                                 summary |-> news.summary,
                                 published_date |-> news.published_date,
                                 source |-> news.source]},
          seq |-> seq + 1, id |-> seq + 1]

\* Faulty variant: the loop appends every item, whether or not a row was returned.
RECURSIVE insert_news_loop_no_result_test(_, _, _, _)
insert_news_loop_no_result_test(table, seq, news_list, news_with_ids) ==
    IF news_list = <<>>
    THEN [table |-> table, seq |-> seq, news_with_ids |-> news_with_ids]
    ELSE LET r == insert_news(table, seq, Head(news_list)) IN
         insert_news_loop_no_result_test(r.table, r.seq, Tail(news_list),
             Append(news_with_ids,
                    [id |-> r.id, title |-> Head(news_list).title,
                     link |-> Head(news_list).link, summary |-> Head(news_list).summary,
                     published_date |-> Head(news_list).published_date,
                     source |-> Head(news_list).source]))

\* The loop of store_news_in_postgres (lines 358-372): the table, the sequence and
\* news_with_ids after the whole list.
RECURSIVE insert_news_loop(_, _, _, _)
insert_news_loop(table, seq, news_list, news_with_ids) ==
    IF news_list = <<>>
    THEN [table |-> table, seq |-> seq, news_with_ids |-> news_with_ids]
    ELSE LET r == insert_news(table, seq, Head(news_list)) IN
         insert_news_loop(r.table, r.seq, Tail(news_list),
             IF r.id # 0   \* if result:
             THEN Append(news_with_ids,
                         [id |-> r.id, title |-> Head(news_list).title,
                          link |-> Head(news_list).link, summary |-> Head(news_list).summary,
                          published_date |-> Head(news_list).published_date,
                          source |-> Head(news_list).source])
             ELSE news_with_ids)

\* ---- the vector index (Milvus collection news_embeddings) ----
\* self.embedding_model.encode(texts), texts = f"{title} {summary}": the vector is a
\* function of the text.
encode(title, summary) == <<title, summary>>

\* news['published_date'].isoformat()
isoformat(d) == <<"iso", d>>

\* One element of milvus_data with the auto_id primary key Milvus gives it.
entity(pk, news) ==
    [id |-> pk, news_id |-> news.id, embedding |-> encode(news.title, news.summary),
     title |-> news.title, content |-> news.summary, source |-> news.source,
     published_date |-> isoformat(news.published_date), link |-> news.link]

\* collection.insert([news_ids, embeddings, titles, contents, sources, dates, links])
collection_insert(index, news_items, auto_id) ==
    index \cup {entity(auto_id + i, news_items[i]) : i \in 1..Len(news_items)}

\* Where a call of generate_and_store_embeddings can raise:
\*   "before_insert": encode, Collection(), load() or insert() raised, nothing inserted
\*   "flush"        : insert() returned, flush() raised
\*   "release"      : flush() and update_embeddings done, release() raised
IndexerOutcomes == {"ok", "before_insert", "flush", "release"}

\* generate_and_store_embeddings(news_items): the collection, the auto_id counter and
\* the stats after the call.
generate_and_store_embeddings(index, auto_id, st, news_items, outcome) ==
    LET inserted == outcome # "before_insert"
        counted == outcome \in {"ok", "release"}
        st1 == IF counted THEN update_embeddings(st, Len(news_items)) ELSE st
    IN [index |-> IF inserted THEN collection_insert(index, news_items, auto_id) ELSE index,
        auto_id |-> IF inserted THEN auto_id + Len(news_items) ELSE auto_id,
        stats |-> IF outcome = "ok" THEN st1 ELSE record_error(st1)]

\* Faulty variant: the statements that ran before the failure stay (autocommit).
rollback_keeps_statements(committed, uncommitted) == uncommitted

\* self.pg_conn.rollback(): the table as last committed; what the statements of the
\* open transaction did to it is discarded.
rollback(committed, uncommitted) == committed

\* ---- what the last handler call was given and did ----
\*   op         : the handler
\*   n          : len(list(batch))
\*   outcome    : "empty" (early return), "committed", "rolled_back"; for
\*                process_historical_data "selected" or "query_failed"
\*   writes     : per natural key of the batch the record to compare the table with
\*                (price: the last record of the key; transaction, news: the first)
\*   to_indexer : the argument of generate_and_store_embeddings, <<>> when not called
\*   index      : the indexer's outcome, "skipped" when not called
call_record(op, n, outcome, writes, to_indexer, index) ==
    [op |-> op, n |-> n, outcome |-> outcome, writes |-> writes,
     to_indexer |-> to_indexer, index |-> index]

first_of_key(batch, key(_)) ==
    {batch[i] : i \in {j \in DOMAIN batch : \A k \in 1..(j-1) : key(batch[k]) # key(batch[j])}}
last_of_key(batch, key(_)) ==
    {batch[i] : i \in {j \in DOMAIN batch :
                          \A k \in (j+1)..Len(batch) : key(batch[k]) # key(batch[j])}}
timestamp_of(r) == r.timestamp
tx_hash_of(r) == r.tx_hash
link_of(r) == r.link

\* ---- the prices topic, from message to row ----
\* The value of JSON null in a payload field.
Null == -1

\* What parse_price_data returns for a message it cannot parse.
None == [timestamp |-> Null, price |-> Null, market_cap |-> Null, volume |-> Null,
         date |-> Null]

\* A field that the JSON object does not have.
Absent == -2

\* data_dict.get(key, 0): the default only when the key is absent; a key present with
\* null gives None.
get_or_zero(v) == IF v = Absent THEN 0 ELSE v

\* Payloads on the prices topic: a tick with all four fields, a tick as
\* BitcoinPriceProducer publishes it (market_cap and volume null), a tick without
\* the two optional fields, and bytes that are not JSON.
PriceMessages ==
    {[json |-> TRUE, timestamp |-> t, price |-> 100 * v, market_cap |-> 10 * v, volume |-> v]
       : t \in Timestamps, v \in Variants}
    \cup {[json |-> TRUE, timestamp |-> t, price |-> 100, market_cap |-> Null, volume |-> Null]
            : t \in Timestamps}
    \cup {[json |-> TRUE, timestamp |-> 1, price |-> 100, market_cap |-> Absent,
           volume |-> Absent]}
    \cup {[json |-> FALSE, timestamp |-> Null, price |-> Null, market_cap |-> Null,
           volume |-> Null]}

\* parse_price_data(data): json.loads, datetime.fromisoformat and the three float()
\* calls raise on bytes that are not JSON and on a null field (float(None)); the
\* except branch returns None.
parse_price_data(data) ==
    IF ~ data.json \/ data.timestamp = Null \/ data.price = Null
       \/ get_or_zero(data.market_cap) = Null \/ get_or_zero(data.volume) = Null
    THEN None
    ELSE [timestamp |-> data.timestamp, price |-> data.price,
          market_cap |-> get_or_zero(data.market_cap), volume |-> get_or_zero(data.volume),
          date |-> date_of(data.timestamp)]

\* The body of store_price_in_postgres for price_list = list(prices): the table, the
\* stats and the connection's transaction state after the call, and how it ended.
\* A None in the list raises TypeError (price['timestamp']) while the parameter
\* tuples are built, before any statement runs.
\*   fail_at : 0, or k: the k-th statement of execute_batch raises (k = len+1: the
\*             commit raises); in a failed transaction the first statement raises
price_handler(table, st, failed_tx, price_list, fail_at) ==
    IF price_list = <<>>                 \* if not price_list: return
    THEN [table |-> table, stats |-> st, failed_tx |-> failed_tx, outcome |-> "empty"]
    ELSE IF None \in Range(price_list)   \* except: record_error(); rollback()
    THEN [table |-> rollback(table, table), stats |-> record_error(st),
          failed_tx |-> FALSE, outcome |-> "rolled_back"]
    ELSE IF fail_at # 0                  \* except: record_error(); rollback()
    THEN [table |-> rollback(table, execute_batch_prices(table,
                                         SubSeq(price_list, 1, fail_at - 1))),
          stats |-> record_error(st), failed_tx |-> FALSE, outcome |-> "rolled_back"]
    ELSE [table |-> execute_batch_prices(table, price_list),
          stats |-> update_price(st, Len(price_list)),
          failed_tx |-> failed_tx, outcome |-> "committed"]

\* Where a call with this list can fail in the database.
fail_points(batch, failed_tx) ==
    IF batch = <<>> THEN {0} ELSE IF failed_tx THEN {1} ELSE 0..(Len(batch) + 1)

\* store_price_in_postgres(prices), handed a batch of parsed ticks.
store_price_in_postgres ==
    /\ pc = "streaming" /\ calls < MaxCalls
    /\ calls' = calls + 1
    /\ \E prices \in Batches(ParsedPrices) :
       \E fail_at \in fail_points(prices, pg_failed_tx) :
         LET h == price_handler(bitcoin_prices, stats, pg_failed_tx, prices, fail_at) IN
         /\ last' = call_record("price", Len(prices), h.outcome,
                                last_of_key(prices, timestamp_of), <<>>, "skipped")
         /\ bitcoin_prices' = h.table
         /\ stats' = h.stats
         /\ pg_failed_tx' = h.failed_tx
    /\ UNCHANGED <<pc, whale_transactions, crypto_news, crypto_news_id_seq, news_embeddings,
                   milvus_auto_id, history_rows, topic, adapterVars, connVars, trackerVars, auxVars>>

\* What the sink of the prices topic is handed for a batch of messages: the
\* deserializer's results, in order. build_pathway_pipeline connects the input to
\* the sink with nothing in between, so a None is in the batch unless the stream
\* library itself leaves it out (passes_none = FALSE).
delivered(parsed, passes_none) ==
    IF passes_none THEN parsed ELSE SelectSeq(parsed, LAMBDA r : r # None)

\* One batch of the prices topic through the pipeline of build_pathway_pipeline:
\* value_deserializer = parse_price_data on every message (record_error for each
\* message it cannot parse), then the sink callback store_price_in_postgres.
consume_prices ==
    /\ pc = "streaming" /\ calls < MaxCalls
    /\ calls' = calls + 1
    /\ \E messages \in SeqsUpTo(PriceMessages, MaxBatch) :
       \E passes_none \in BOOLEAN :
         LET parsed == [i \in DOMAIN messages |-> parse_price_data(messages[i])]
             malformed == Cardinality({i \in DOMAIN parsed : parsed[i] = None})
             counted == [stats EXCEPT !.errors = @ + malformed]
             price_list == delivered(parsed, passes_none)
         IN
         \E fail_at \in (IF None \in Range(price_list) THEN {0}
                         ELSE fail_points(price_list, pg_failed_tx)) :
           LET h == price_handler(bitcoin_prices, counted, pg_failed_tx, price_list, fail_at) IN
           /\ last' = [op |-> "consume", n |-> Len(messages), outcome |-> h.outcome,
                       writes |-> last_of_key(SelectSeq(parsed, LAMBDA r : r # None),
                                              timestamp_of),
                       to_indexer |-> <<>>, index |-> "skipped",
                       malformed |-> malformed, db_failed |-> fail_at # 0,
                       messages |-> messages]
           /\ bitcoin_prices' = h.table
           /\ stats' = h.stats
           /\ pg_failed_tx' = h.failed_tx
    /\ UNCHANGED <<pc, whale_transactions, crypto_news, crypto_news_id_seq, news_embeddings,
                   milvus_auto_id, history_rows, topic, adapterVars, connVars, trackerVars, auxVars>>

\* store_transaction_in_postgres(transactions); fail_at as above.
store_transaction_in_postgres ==
    /\ pc = "streaming" /\ calls < MaxCalls
    /\ calls' = calls + 1
    /\ \E transactions \in Batches(ParsedTransactions) :
       \E fail_at \in (IF transactions = <<>> THEN {0}
                      ELSE IF pg_failed_tx THEN {1} ELSE 0..(Len(transactions) + 1)) :
         LET writes == first_of_key(transactions, tx_hash_of)
             partial == execute_batch_transactions(whale_transactions,
                                                   SubSeq(transactions, 1, fail_at - 1))
         IN
         IF transactions = <<>>
         THEN /\ last' = call_record("tx", 0, "empty", {}, <<>>, "skipped")
              /\ UNCHANGED <<whale_transactions, stats, pg_failed_tx>>
         ELSE IF fail_at # 0
         THEN /\ last' = call_record("tx", Len(transactions), "rolled_back", writes, <<>>, "skipped")
              /\ stats' = record_error(stats)
              /\ pg_failed_tx' = FALSE
              /\ whale_transactions' = rollback(whale_transactions, partial)
         ELSE /\ last' = call_record("tx", Len(transactions), "committed", writes, <<>>, "skipped")
              /\ whale_transactions' = execute_batch_transactions(whale_transactions, transactions)
              /\ stats' = update_transaction(stats, Len(transactions))
              /\ UNCHANGED pg_failed_tx
    /\ UNCHANGED <<pc, bitcoin_prices, crypto_news, crypto_news_id_seq, news_embeddings,
                   milvus_auto_id, history_rows, topic, adapterVars, connVars, trackerVars, auxVars>>

\* store_news_in_postgres(news_items).
\*   fail_at : 0, or k: the k-th cursor.execute raises (k = len+1: the commit raises);
\*             the statements before it drew their ids from the sequence
\*   outcome : how the call of generate_and_store_embeddings ends, when it is made
store_news_in_postgres ==
    /\ pc = "streaming" /\ calls < MaxCalls
    /\ calls' = calls + 1
    /\ \E news_items \in Batches(ParsedNews) :
       \E fail_at \in (IF news_items = <<>> THEN {0}
                      ELSE IF pg_failed_tx THEN {1} ELSE 0..(Len(news_items) + 1)) :
         LET writes == first_of_key(news_items, link_of)
             done == insert_news_loop(crypto_news, crypto_news_id_seq, news_items, <<>>)
             partial == insert_news_loop(crypto_news, crypto_news_id_seq,
                                         SubSeq(news_items, 1, fail_at - 1), <<>>)
         IN
         IF news_items = <<>>                 \* if not news_list: return
         THEN /\ last' = call_record("news", 0, "empty", {}, <<>>, "skipped")
              /\ UNCHANGED <<crypto_news, crypto_news_id_seq, news_embeddings, milvus_auto_id,
                             stats, pg_failed_tx>>
         ELSE IF fail_at # 0                  \* except: record_error(); rollback()
         THEN /\ last' = call_record("news", Len(news_items), "rolled_back", writes, <<>>, "skipped")
              /\ crypto_news_id_seq' = partial.seq
              /\ stats' = record_error(stats)
              /\ pg_failed_tx' = FALSE
              /\ crypto_news' = rollback(crypto_news, partial.table)
              /\ UNCHANGED <<news_embeddings, milvus_auto_id>>
         ELSE \E outcome \in (IF done.news_with_ids = <<>> THEN {"skipped"} ELSE IndexerOutcomes) :
              LET counted == update_news(stats, Len(news_items))
                  g == generate_and_store_embeddings(news_embeddings, milvus_auto_id, counted,
                                                     done.news_with_ids, outcome)
              IN /\ last' = call_record("news", Len(news_items), "committed", writes,
                                        done.news_with_ids, outcome)
                 /\ crypto_news' = done.table
                 /\ crypto_news_id_seq' = done.seq
                 /\ IF outcome = "skipped"    \* if news_with_ids: is false
                    THEN /\ stats' = counted
                         /\ UNCHANGED <<news_embeddings, milvus_auto_id>>
                    ELSE /\ stats' = g.stats
                         /\ news_embeddings' = g.index
                         /\ milvus_auto_id' = g.auto_id
                 /\ UNCHANGED pg_failed_tx
    /\ UNCHANGED <<pc, bitcoin_prices, whale_transactions, history_rows, topic, adapterVars, connVars, trackerVars, auxVars>>

\* ---- the reconciliation pass ----
\* The relations the SELECT of process_historical_data names (lines 436-443).
history_query_tables == {"crypto_news", "news_embeddings"}

\* Rows of a relation news_embeddings in PostgreSQL: no statement of the repository
\* inserts into one (the embeddings go to the Milvus collection of that name).
pg_news_embeddings == {}

\* WHERE NOT EXISTS (SELECT 1 FROM news_embeddings ne WHERE ne.news_id = cn.id)
select_unembedded(table, ne) == {cn \in table : ~ \E e \in ne : e.news_id = cn.id}

\* ORDER BY cn.published_date DESC (rows of equal date: highest id first)
RECURSIVE order_by_published_date_desc(_)
order_by_published_date_desc(rows) ==
    IF rows = {} THEN <<>>
    ELSE LET top == CHOOSE r \in rows :
                      \A q \in rows : \/ q.published_date < r.published_date
                                      \/ (q.published_date = r.published_date /\ q.id <= r.id)
         IN <<top>> \o order_by_published_date_desc(rows \ {top})

batch_size == 50

\* for i in range(0, len(news_items), batch_size): generate_and_store_embeddings(batch)
\* g is [index, auto_id, stats]; outcomes[k] is how the k-th call ends.
RECURSIVE index_in_batches(_, _, _, _)
index_in_batches(g, news_items, k, outcomes) ==
    IF news_items = <<>> THEN g
    ELSE LET m == IF Len(news_items) < batch_size THEN Len(news_items) ELSE batch_size
             batch == SubSeq(news_items, 1, m)
         IN index_in_batches(
                generate_and_store_embeddings(g.index, g.auto_id, g.stats, batch, outcomes[k]),
                SubSeq(news_items, m + 1, Len(news_items)), k + 1, outcomes)

\* process_historical_data(), the first step of run(). The SELECT names a relation
\* that CREATE_TABLES does not create: the query raises, the handler counts one
\* error and returns without rollback, so the connection stays in the failed
\* transaction until the next rollback.
process_historical_data ==
    /\ pc = "start"
    /\ pc' = "streaming"
    /\ history_rows' = <<history_rows[2], {cn.id : cn \in crypto_news}>>
    /\ IF ~ (history_query_tables \subseteq pg_tables)
       THEN /\ last' = call_record("history", 0, "query_failed", {}, <<>>, "skipped")
            /\ stats' = record_error(stats)
            /\ pg_failed_tx' = TRUE
            /\ UNCHANGED <<news_embeddings, milvus_auto_id>>
       ELSE LET news_items == order_by_published_date_desc(
                                  select_unembedded(crypto_news, pg_news_embeddings))
                nbatches == (Len(news_items) + batch_size - 1) \div batch_size
            IN \E outcomes \in [1..nbatches -> IndexerOutcomes] :
                 LET g == index_in_batches([index |-> news_embeddings, auto_id |-> milvus_auto_id,
                                            stats |-> stats], news_items, 1, outcomes)
                 IN /\ last' = call_record("history", Len(news_items), "selected", {},
                                           news_items, "batches")
                    /\ stats' = g.stats
                    /\ news_embeddings' = g.index
                    /\ milvus_auto_id' = g.auto_id
                    /\ UNCHANGED pg_failed_tx
    /\ UNCHANGED <<calls, bitcoin_prices, whale_transactions, crypto_news, crypto_news_id_seq,
                   topic, adapterVars, connVars, trackerVars, auxVars>>

\* The process ends (crash or shutdown) and a new one is started: a new
\* ProcessingStats (ProgressMonitor.__init__), a new connection; the stores keep
\* what was committed.
restart ==
    /\ calls < MaxCalls
    /\ calls' = calls + 1
    /\ pc' = "start"
    /\ stats' = NewStats
    /\ pg_failed_tx' = FALSE
    /\ last' = call_record("restart", 0, "none", {}, <<>>, "skipped")
    /\ UNCHANGED <<bitcoin_prices, whale_transactions, crypto_news, crypto_news_id_seq,
                   news_embeddings, milvus_auto_id, history_rows, topic, adapterVars, connVars, trackerVars, auxVars>>

\* The value of `running` while no poll is in progress.
no_poll == [job |-> "none", scheduled |-> FALSE]

\* No poll is scheduled or in progress.
IdleSched ==
    /\ now = 0 /\ next_run = [j \in {"price", "whale", "news"} |-> 0]
    /\ running = no_poll /\ startup = <<>>

\* No batch is in progress on the connection.
IdleShare ==
    /\ writer = [t \in {"prices", "whales", "news"} |-> "idle"]
    /\ open_tx = {} /\ durable = {}
    /\ conn_op = [by |-> "none", kind |-> "none", rows |-> {}]

\* No request is being made.
IdleRequest ==
    /\ req_collector = "price" /\ req_attempts = <<>> /\ req_waits = <<>>
    /\ req_state = "returned" /\ req_result = "None"

\* No fetch is being made.
IdleFetch ==
    /\ fetch_collector = "tx" /\ fetch_feed = <<>> /\ fetch_page = 0
    /\ fetch_items = <<>> /\ fetch_state = "exhausted"

\* The monitor is not observed.
IdleMonitor ==
    /\ mon_running = TRUE /\ loop_pc = "sleep" /\ stop_pc = "not_called"
    /\ loop_stats = NewStats /\ stop_stats = NewStats /\ progress_file = NewStats

\* The parts of the system a specification does not exercise stay at rest.
num_partitions == 1

partitions_two(t) == 1..2

partitions(t) == 1..num_partitions

IdleOrder ==
    /\ published = 0 /\ send_log = <<>> /\ processed = <<>>
    /\ partition_log = [t \in {"prices", "whales", "news"} |-> [p \in partitions(t) |-> <<>>]]
    /\ read_offset = [t \in {"prices", "whales", "news"} |-> [p \in partitions(t) |-> 0]]

IdleChunks ==
    /\ chunk_pc = "idle" /\ chunk_interval = "day" /\ chunk_start = 0 /\ chunk_end = 0
    /\ current_end = 0 /\ chunks_processed = 0 /\ all_data = <<>> /\ chunk_result = <<>>

IdleLate == IdleOrder /\ IdleChunks

InitAux == IdleSched /\ IdleShare /\ IdleRequest /\ IdleFetch /\ IdleMonitor /\ IdleLate

\* The objects of the other specifications exist: their constructors connected.
InitConnected ==
    /\ conn_target = "stores" /\ conn_attempts = <<"ok">> /\ conn_sleeps = 0
    /\ conn_state = "connected"
    /\ InitAux
    /\ tasks = [t \in 1..NumTasks |-> [pc |-> "idle", op |-> "none", count |-> 0, loaded |-> 0]]
    /\ applied = NewStats

InitAdapter ==
    /\ adapter \in Adapters
    /\ last_processed = {}
    /\ polls = 0
    /\ cycles = <<>>
    /\ last_poll = poll_record("none", {}, <<>>)

\* populate_db_from_csv() of setup_postgres.py: the news rows a database holds when
\* the consumer is first started, none (no import) or those of crypto_news.csv.
ImportedNews == {<<>>, <<[title |-> 1, link |-> "l1", summary |-> 10, published_date |-> 1,
                         source |-> "feed"]>>}

InitProcessor ==
    /\ pc = "start"
    /\ pg_failed_tx = FALSE
    /\ bitcoin_prices = {}
    /\ whale_transactions = {}
    /\ \E csv \in ImportedNews :
         LET imported == insert_news_loop({}, 0, csv, <<>>) IN
         /\ crypto_news = imported.table
         /\ crypto_news_id_seq = imported.seq
    /\ news_embeddings = {}
    /\ milvus_auto_id = 0
    /\ stats = NewStats
    /\ calls = 0
    /\ last = call_record("none", 0, "none", {}, <<>>, "skipped")
    /\ history_rows = <<{-1}, {-1}>>       \* no pass yet

\* The adapter specification: one producer object, either of the two.
InitAdapters == InitAdapter /\ InitProcessor /\ crypto_news = {} /\ topic = "news"
                /\ InitConnected
NextAdapter == fetch_and_send
SpecAdapter == InitAdapters /\ [][NextAdapter]_vars

\* The consumer specifications. The three sinks share the connection's transaction
\* state and the error counter and nothing else; each topic is checked with its
\* handler interleaved with the reconciliation pass and with restarts.
\* KAFKA_TOPICS of data_processor.py: one pw.io.kafka.read and one sink per topic.
Topics == {"prices", "whales", "news"}

InitTopic(t) == /\ adapter = "news" /\ last_processed = {} /\ polls = 0 /\ cycles = <<>>
                /\ last_poll = poll_record("none", {}, <<>>) /\ InitProcessor
                /\ topic = t /\ InitConnected

Init == InitTopic("news")

NextPrices == process_historical_data \/ store_price_in_postgres \/ restart
SpecPrices == InitTopic("prices") /\ [][NextPrices]_vars

NextTransactions == process_historical_data \/ store_transaction_in_postgres \/ restart
SpecTransactions == InitTopic("whales") /\ [][NextTransactions]_vars

Next == process_historical_data \/ store_news_in_postgres \/ restart
Spec == Init /\ [][Next]_vars

\* The prices topic from the messages on: parse, then store.
NextConsume == process_historical_data \/ consume_prices \/ restart
SpecConsume == InitTopic("prices") /\ [][NextConsume]_vars

\* The consumer task of any one topic: the behaviours of the three specifications
\* above, in one specification.
InitTopics == \E t \in Topics : InitTopic(t)
NextTopics ==
    \/ process_historical_data
    \/ (topic = "prices" /\ store_price_in_postgres)
    \/ (topic = "whales" /\ store_transaction_in_postgres)
    \/ (topic = "news" /\ store_news_in_postgres)
    \/ restart
SpecTopics == InitTopics /\ [][NextTopics]_vars

(***************************************************************************)
(* Claims about the adapters (checked under SpecAdapter).                  *)

(***************************************************************************)
(* The initial connections.  KafkaDataProducer.connect_with_retries and    *)
(* BitcoinDataProcessor.setup_connections_with_retries run the same loop:  *)
(*     for attempt in range(max_retries):                                  *)
(*         try: <connect>; return                                          *)
(*         except <E>: if attempt < max_retries - 1: time.sleep(delay)     *)
(*     raise Exception("Failed to connect ... after multiple attempts")    *)
(* One action is one iteration of the loop; the raise that follows the     *)
(* last iteration is part of that iteration's step.                        *)
(***************************************************************************)
max_retries == 5

range_inclusive(n) == 0..n
range(n) == 0..(n - 1)

\* What one attempt can end in.  The producer builds a KafkaProducer: it
\* returns, or raises a KafkaError (NoBrokersAvailable when no broker
\* answers), or raises something that is not a KafkaError (a rejected
\* argument).  The processor connects PostgreSQL, then Milvus: both succeed,
\* or the first or the second raises.
attempt_outcomes(target) ==
    IF target = "bus" THEN {"ok", "KafkaError", "other_exception"}
    ELSE {"ok", "postgres_failed", "milvus_failed"}

\* The exceptions the except clause of the loop catches.
caught(target) ==
    IF target = "bus" THEN {"KafkaError"} ELSE {"postgres_failed", "milvus_failed"}

loop_iteration(target, outcome) ==
    LET attempt == Len(conn_attempts) IN
    /\ conn_state = "connecting"
    /\ conn_target = target
    /\ attempt \in range(max_retries)
    /\ outcome \in attempt_outcomes(target)
    /\ conn_attempts' = Append(conn_attempts, outcome)
    /\ IF outcome = "ok"
       THEN conn_state' = "connected" /\ UNCHANGED conn_sleeps
       ELSE IF outcome \notin caught(target)
       THEN conn_state' = "fatal" /\ UNCHANGED conn_sleeps
       ELSE /\ conn_sleeps' = IF attempt < max_retries - 1 THEN conn_sleeps + 1
                              ELSE conn_sleeps
            /\ conn_state' = IF attempt + 1 \in range(max_retries) THEN "connecting"
                             ELSE "fatal"
    /\ UNCHANGED <<conn_target, adapterVars, processorVars, trackerVars, auxVars>>

connect_with_retries == \E outcome \in attempt_outcomes("bus") : loop_iteration("bus", outcome)

setup_connections_with_retries ==
    \E outcome \in attempt_outcomes("stores") : loop_iteration("stores", outcome)

InitConnect ==
    /\ conn_target \in {"bus", "stores"}
    /\ conn_attempts = <<>> /\ conn_sleeps = 0 /\ conn_state = "connecting"
    /\ adapter = "news" /\ last_processed = {} /\ polls = 0 /\ cycles = <<>>
    /\ last_poll = poll_record("none", {}, <<>>) /\ InitProcessor /\ crypto_news = {}
    /\ topic = "news"
    /\ tasks = [t \in 1..NumTasks |-> [pc |-> "idle", op |-> "none", count |-> 0, loaded |-> 0]]
    /\ applied = NewStats
    /\ InitAux
NextConnect == connect_with_retries \/ setup_connections_with_retries
SpecConnect == InitConnect /\ [][NextConnect]_vars

(***************************************************************************)
sent_keys(p) == {p.sends[i].key : i \in DOMAIN p.sends}
Distinct3(a, b, c) == a # b /\ b # c /\ a # c

\* C2: when a poll that fetches {a,b} has run to completion and the next poll fetches
\* {b,c}, that poll attempts to publish c and nothing else (nothing but c when its loop
\* is cut short by an exception); when it has run to completion too, a is forgotten: a
\* following poll that fetches a finds it new and, unless its loop is cut short,
\* attempts to publish it again.
C2_DedupWindowReplacement ==
    LET n == Len(cycles) IN
    \A a, b, c \in Keys :
      Distinct3(a, b, c) =>
        /\ (/\ n >= 2
            /\ cycles[n-1].status = "done" /\ cycles[n-1].keys = {a, b}
            /\ cycles[n].keys = {b, c})
           => /\ cycles[n].status \in {"done", "raised"}
              /\ sent_keys(last_poll) \subseteq {c}
              /\ cycles[n].status = "done" => sent_keys(last_poll) = {c}
        /\ (/\ n >= 3
            /\ cycles[n-2].status = "done" /\ cycles[n-2].keys = {a, b}
            /\ cycles[n-1].status = "done" /\ cycles[n-1].keys = {b, c}
            /\ a \in cycles[n].keys)
           => /\ cycles[n].status \in {"done", "raised"}
              /\ cycles[n].status = "done" => a \in sent_keys(last_poll)

\* C2 witness: the scenario of the claim ran in polls 1..3 and A was sent again in poll 3.
C2_Witness ==
    /\ polls = 3 /\ Len(cycles) = 3
    /\ \A i \in 1..3 : cycles[i].status = "done"
    /\ cycles[1].keys = {"A", "B"}
    /\ cycles[2].keys = {"B", "C"}
    /\ "A" \in cycles[3].keys
    /\ "A" \in sent_keys(last_poll)

\* C3, as stated: after every poll that fetched (with or without a new key), the
\* window equals the key set fetched in that poll.
C3_AsStated ==
    (polls >= 1 /\ last_poll.status \in {"empty", "no_new", "done"})
      => last_processed = last_poll.keys

\* One poll under C3 (amended): a poll that finds at least one new key
\* and runs to completion replaces it by the full key set it fetched (no merge) and
\* attempts to publish exactly the keys that were not in the window; every other poll
\* (failed fetch, empty fetch, no new key, raised in the loop) leaves it unchanged.
C3_WindowStep ==
    (polls' = polls + 1) =>
      IF last_poll'.status = "done"
      THEN /\ last_poll'.keys \ last_processed # {}
           /\ last_processed' = last_poll'.keys
           /\ sent_keys(last_poll') = last_poll'.keys \ last_processed
      ELSE /\ last_processed' = last_processed
           /\ last_poll'.status \in {"empty", "no_new"} => last_poll'.keys \subseteq last_processed

\* C3 (amended), the whole property: the window of an adapter that has not polled yet
\* is empty, and every poll changes it as C3_WindowStep says.
C3_WindowLifecycle ==
    /\ [](polls = 0 => last_processed = {})
    /\ [][C3_WindowStep]_vars

\* C3 witness: a key of the window was dropped by a replacing poll (A forgotten) and a
\* later poll, having fetched it again, sent it again.
C3_Witness ==
    /\ polls = 3 /\ Len(cycles) = 3
    /\ \A i \in 1..3 : cycles[i].status = "done"
    /\ "A" \in cycles[1].keys
    /\ "A" \notin cycles[2].keys
    /\ "A" \in sent_keys(last_poll)
    /\ last_processed = last_poll.keys

(***************************************************************************)
(* Claims about the news handler and the vector index (checked under Spec). *)
(***************************************************************************)
news_call == calls' = calls + 1 /\ last'.op = "news"
history_call == pc = "start" /\ pc' = "streaming"
stored_links == {r.link : r \in crypto_news}
passed_to_indexer(c, l) == {i \in DOMAIN c.to_indexer : c.to_indexer[i].link = l}
same_article(r, w) ==
    /\ r.link = w.link /\ r.title = w.title /\ r.summary = w.summary
    /\ r.published_date = w.published_date /\ r.source = w.source

\* C1, as stated: in every call of store_news_in_postgres an article whose link is
\* already stored is not passed to the indexer, and an article with a new link is
\* inserted and gets exactly one embedding insert.
C1_AsStated ==
    [][news_call =>
        \A w \in last'.writes :
          LET embedded == {e \in news_embeddings' \ news_embeddings : e.link = w.link} IN
          IF w.link \in stored_links
          THEN passed_to_indexer(last', w.link) = {} /\ embedded = {}
          ELSE /\ \E r \in crypto_news' : same_article(r, w)
               /\ Cardinality(passed_to_indexer(last', w.link)) = 1
               /\ Cardinality(embedded) = 1]_vars

\* One call under C1 (amended): an article whose link is already stored yields no id,
\* is not passed to the indexer and leaves the stored row as it was; an article with a
\* new link is, when the batch commits, inserted and passed to the indexer exactly
\* once under the id of its row, and exactly one embedding is inserted for it unless
\* the indexer raises before its insert (then none); when the batch is rolled back
\* it is not inserted and nothing is passed to the indexer.
C1_Step ==
    news_call =>
      \A w \in last'.writes :
        LET embedded == {e \in news_embeddings' \ news_embeddings : e.link = w.link}
            passed == passed_to_indexer(last', w.link)
        IN
        IF w.link \in stored_links
        THEN /\ passed = {} /\ embedded = {}
             /\ \A r \in crypto_news : r.link = w.link => r \in crypto_news'
        ELSE IF last'.outcome = "committed"
        THEN \E r \in crypto_news' :
               /\ same_article(r, w)
               /\ Cardinality(passed) = 1
               /\ \A i \in passed : last'.to_indexer[i].id = r.id
               /\ Cardinality(embedded) = (IF last'.index = "before_insert" THEN 0 ELSE 1)
               /\ \A e \in embedded : e.news_id = r.id
        ELSE /\ ~ \E r \in crypto_news' : r.link = w.link
             /\ passed = {} /\ embedded = {}

\* C1 (amended): every call of store_news_in_postgres is a C1_Step.
C1_IdGatedEmbedding == [][C1_Step]_vars

\* C1 witness: a committed batch of two articles with different links of which one
\* got an id and an embedding; the other's link was stored already.
C1_Witness ==
    /\ last.op = "news" /\ last.outcome = "committed" /\ last.index = "ok"
    /\ last.n = 2 /\ Cardinality(last.writes) = 2
    /\ Len(last.to_indexer) = 1
    /\ \E e \in news_embeddings : e.news_id = last.to_indexer[1].id
    /\ \A w \in last.writes : \E r \in crypto_news : r.link = w.link

\* C7: a reconciliation pass that follows an earlier pass, with the same rows in
\* crypto_news as at that pass, inserts no embedding.
C7_ReconciliationIdempotent ==
    [][(history_call /\ history_rows[2] = {cn.id : cn \in crypto_news})
         => news_embeddings' = news_embeddings]_vars

\* C7 witness: two passes over the same non-empty set of rows, one of them without
\* an embedding.
C7_Witness ==
    /\ last.op = "history"
    /\ history_rows[1] = history_rows[2]
    /\ history_rows[2] = {cn.id : cn \in crypto_news}
    /\ \E cn \in crypto_news : ~ \E e \in news_embeddings : e.news_id = cn.id

\* C8: the index holds at most one embedding per news id, and an embedding, once
\* inserted, stays in the index as it was inserted.
C8_EmbeddingOncePerArticle ==
    /\ [](\A e1, e2 \in news_embeddings : e1.news_id = e2.news_id => e1 = e2)
    /\ [][\A e \in news_embeddings : e \in news_embeddings']_vars

\* C8 witness: an embedding exists, and the process was restarted and ran its
\* reconciliation pass over a table that has a row without an embedding.
C8_Witness ==
    /\ last.op = "history" /\ history_rows[1] # {-1}
    /\ news_embeddings # {}
    /\ \E cn \in crypto_news : ~ \E e \in news_embeddings : e.news_id = cn.id

\* C9: the news id of every embedding in the index is the id of a row of crypto_news
\* (with the embedding's link).
C9_EmbeddingHasArticle ==
    \A e \in news_embeddings : \E cn \in crypto_news : cn.id = e.news_id /\ cn.link = e.link

\* C9 witness: an embedding exists and the last batch, with a link that is not
\* stored, was rolled back.
C9_Witness ==
    /\ news_embeddings # {}
    /\ last.op = "news" /\ last.outcome = "rolled_back"
    /\ \E w \in last.writes : w.link \notin stored_links

(***************************************************************************)
(* Claims about the price handler (checked under SpecPrices).              *)
(***************************************************************************)
\* C4: bitcoin_prices holds one row per timestamp, and after a committed batch the
\* row of each timestamp of the batch has the price, market cap and volume of the
\* last record of the batch with that timestamp.
C4_PriceUpsert ==
    /\ \A r1, r2 \in bitcoin_prices : r1.timestamp = r2.timestamp => r1 = r2
    /\ (last.op = "price" /\ last.outcome = "committed") =>
         \A w \in last.writes :
           \E r \in bitcoin_prices :
             /\ r.timestamp = w.timestamp
             /\ r.price = w.price /\ r.market_cap = w.market_cap /\ r.volume = w.volume

\* C4 witness: a committed batch of two records with the same timestamp, and the
\* row of that timestamp holds the second payload.
C4_Witness ==
    /\ last.op = "price" /\ last.outcome = "committed"
    /\ last.n = 2 /\ Cardinality(last.writes) = 1
    /\ \E r \in bitcoin_prices : r.price = 200
    /\ Cardinality(bitcoin_prices) = 1

\* One step under C6: a committed call of store_price_in_postgres with N records
\* adds N to prices_processed; a failed operation (a rolled back batch, a failed
\* reconciliation query) adds one to errors; nothing else changes the two counters
\* of a running process.
C6_Step ==
    ((calls' = calls + 1 \/ history_call) /\ last'.op # "restart") =>
      /\ stats'.prices_processed = stats.prices_processed +
           (IF last'.op = "price" /\ last'.outcome = "committed" THEN last'.n ELSE 0)
      /\ stats'.errors = stats.errors +
           (IF last'.outcome \in {"rolled_back", "query_failed"} THEN 1 ELSE 0)

\* C6: every step of a running consumer process is a C6_Step.
C6_Counters == [][C6_Step]_vars

\* C6 witness: three records upserted in two committed calls after two failed
\* operations of the same process.
C6_Witness ==
    /\ stats.prices_processed = 3 /\ stats.errors = 2
    /\ last.op = "price" /\ last.outcome = "committed"

(***************************************************************************)
(* Claims about the transaction handler (checked under SpecTransactions).  *)
(***************************************************************************)
\* One step under C5: a stored transaction stays as it is, and a committed batch
\* stores, for each of its hashes that was not stored, the first record with it.
C5_Step ==
    /\ \A r \in whale_transactions : r \in whale_transactions'
    /\ (calls' = calls + 1 /\ last'.op = "tx" /\ last'.outcome = "committed") =>
         \A w \in last'.writes :
           (~ \E r \in whale_transactions : r.tx_hash = w.tx_hash) => w \in whale_transactions'

\* C5: whale_transactions holds one row per tx_hash, and every step is a C5_Step.
C5_InsertOrIgnore ==
    /\ [](\A r1, r2 \in whale_transactions : r1.tx_hash = r2.tx_hash => r1 = r2)
    /\ [][C5_Step]_vars

\* C5 witness: a committed batch carried a stored hash with other field values and
\* the stored row kept the values of the first insert.
C5_Witness ==
    /\ last.op = "tx" /\ last.outcome = "committed"
    /\ \E w \in last.writes : \E r \in whale_transactions :
         r.tx_hash = w.tx_hash /\ r.value_btc # w.value_btc

(***************************************************************************)
(* Claims about the three handlers (checked under SpecTopics).             *)
(***************************************************************************)
store_call(op) == calls' = calls + 1 /\ last'.op = op /\ last'.n > 0

\* One call under C11. A batch that was committed before has all its keys stored.
\* Handing such a batch to its handler again leaves whale_transactions and
\* crypto_news as they were, passes nothing to the indexer and inserts no embedding;
\* it adds no row to bitcoin_prices, a committed replay leaves the row of each of its
\* timestamps with the replayed values, and a replay over rows that still hold the
\* replayed values leaves bitcoin_prices as it was, committed or not.
C11_Step ==
    /\ (store_call("tx") /\ \A w \in last'.writes :
                              \E r \in whale_transactions : r.tx_hash = w.tx_hash)
         => whale_transactions' = whale_transactions
    /\ (store_call("news") /\ \A w \in last'.writes : w.link \in stored_links)
         => /\ crypto_news' = crypto_news
            /\ last'.to_indexer = <<>>
            /\ news_embeddings' = news_embeddings
    /\ (store_call("price") /\ \A w \in last'.writes :
                                 \E r \in bitcoin_prices : r.timestamp = w.timestamp)
         => /\ {r.timestamp : r \in bitcoin_prices'} = {r.timestamp : r \in bitcoin_prices}
            /\ last'.outcome = "committed" =>
                 \A w \in last'.writes : \E r \in bitcoin_prices' :
                   /\ r.timestamp = w.timestamp /\ r.price = w.price
                   /\ r.market_cap = w.market_cap /\ r.volume = w.volume
            /\ (\A w \in last'.writes : \E r \in bitcoin_prices :
                   /\ r.timestamp = w.timestamp /\ r.price = w.price
                   /\ r.market_cap = w.market_cap /\ r.volume = w.volume)
                 => bitcoin_prices' = bitcoin_prices
            /\ news_embeddings' = news_embeddings

\* C11: every call of a handler with a batch whose keys are all stored is a C11_Step.
C11_ReplayAbsorbed == [][C11_Step]_vars

\* C11 witness: a news batch whose article got its embedding earlier was handed over
\* again and committed: nothing went to the indexer.
C11_Witness ==
    /\ topic = "news" /\ last.op = "news" /\ last.outcome = "committed" /\ last.n > 0
    /\ last.to_indexer = <<>>
    /\ \A w \in last.writes :
         /\ \E r \in crypto_news : same_article(r, w)
         /\ \E e \in news_embeddings : e.link = w.link

\* One call under C12: a call of a store_* handler in which a statement or the
\* commit fails leaves the three tables and the index as they were, adds exactly one
\* to errors and nothing to the processed counters, and runs no statement of the
\* batch a second time (the sequence of crypto_news.id has advanced by at most one
\* per record).
C12_Step ==
    (calls' = calls + 1 /\ last'.op \in {"price", "tx", "news"}
                        /\ last'.outcome = "rolled_back") =>
      /\ bitcoin_prices' = bitcoin_prices
      /\ whale_transactions' = whale_transactions
      /\ crypto_news' = crypto_news
      /\ news_embeddings' = news_embeddings /\ last'.to_indexer = <<>>
      /\ stats' = [stats EXCEPT !.errors = @ + 1]
      /\ crypto_news_id_seq' <= crypto_news_id_seq + last'.n
      /\ pc' = pc

\* C12: every failed call of a store_* handler is a C12_Step.
C12_BatchAllOrNothing == [][C12_Step]_vars

\* C12 witness: a batch of two articles with new links failed after its first
\* statement had inserted a row (the sequence has advanced): no row is stored.
C12_Witness ==
    /\ last.op = "news" /\ last.outcome = "rolled_back" /\ last.n = 2
    /\ Cardinality(last.writes) = 2
    /\ crypto_news = {} /\ crypto_news_id_seq >= 1
    /\ stats.news_processed = 0 /\ stats.errors >= 2

(***************************************************************************)
(* Claims about the indexer (checked under Spec).                          *)
(***************************************************************************)
\* C13, as stated: a call generate_and_store_embeddings(rows) either inserts len(rows)
\* vectors and adds len(rows) to embeddings_generated, or leaves the index without
\* any vector of the call, leaves embeddings_generated unchanged and adds exactly
\* one to errors.
C13_AsStated ==
    [][(news_call /\ last'.index # "skipped") =>
         LET rows == last'.to_indexer
             vectors == news_embeddings' \ news_embeddings
         IN \/ /\ Cardinality(vectors) = Len(rows)
               /\ stats'.embeddings_generated = stats.embeddings_generated + Len(rows)
            \/ /\ vectors = {}
               /\ stats'.embeddings_generated = stats.embeddings_generated
               /\ stats'.errors = stats.errors + 1]_vars

(***************************************************************************)
(* Claims about malformed messages (checked under SpecConsume).            *)
(***************************************************************************)
\* C14, as stated: a message that cannot be parsed is counted as one error and
\* skipped: it leaves no row, and when the database does not fail, the valid
\* messages delivered with it are stored and nothing else is counted as an error.
C14_AsStated ==
    [][(calls' = calls + 1 /\ last'.op = "consume" /\ ~ last'.db_failed) =>
         /\ stats'.errors = stats.errors + last'.malformed
         /\ \A r \in bitcoin_prices' : r # None
         /\ \A w \in last'.writes :
              \E r \in bitcoin_prices' :
                /\ r.timestamp = w.timestamp /\ r.price = w.price
                /\ r.market_cap = w.market_cap /\ r.volume = w.volume]_vars

\* C15, as stated: errors increases by exactly one per unit of work lost. For a batch
\* of the prices topic the units lost are the messages that cannot be parsed, plus
\* the batch of parsed ticks when it is rolled back.
C15_AsStated ==
    [][(calls' = calls + 1 /\ last'.op = "consume") =>
         stats'.errors = stats.errors + last'.malformed +
           (IF last'.outcome = "rolled_back" /\ last'.writes # {} THEN 1 ELSE 0)]_vars


(***************************************************************************)
(* C16.  The initial connection of a component makes at most max_retries   *)
(* attempts; a successful attempt is the last one made; every attempt that *)
(* fails to connect before the bound is reached is followed by a wait and  *)
(* another attempt; and when max_retries attempts in a row have failed to  *)
(* connect the method has raised, so the component never starts.           *)

(***************************************************************************)
(* ProcessingStats under several tasks.  Each update method is the         *)
(* statement  self.<counter> += count : the attribute is read, the sum is  *)
(* built, the attribute is written.  The class holds no lock, so another   *)
(* task's read or write can fall between the read and the write.           *)
(***************************************************************************)
Tasks == 1..NumTasks

\* The update methods and the counter each one advances.
Updates == {"update_price", "update_transaction", "update_news", "update_embeddings",
            "record_error"}
counter_of(op) ==
    CASE op = "update_price" -> "prices_processed"
      [] op = "update_transaction" -> "transactions_processed"
      [] op = "update_news" -> "news_processed"
      [] op = "update_embeddings" -> "embeddings_generated"
      [] op = "record_error" -> "errors"

\* record_error() takes no argument and adds 1; the others add their count.
counts_of(op) == IF op = "record_error" THEN {1} ELSE 1..MaxBatch

idle_task == [pc |-> "idle", op |-> "none", count |-> 0, loaded |-> 0]

\* A task enters an update method and reads the counter.
load_counter(t) ==
    /\ tasks[t].pc = "idle"
    /\ calls < MaxCalls
    /\ calls' = calls + 1
    /\ \E op \in Updates : \E count \in counts_of(op) :
         tasks' = [tasks EXCEPT ![t] = [pc |-> "loaded", op |-> op, count |-> count,
                                        loaded |-> stats[counter_of(op)]]]
    /\ UNCHANGED <<stats, applied, pc, pg_failed_tx, bitcoin_prices, whale_transactions,
                   crypto_news, crypto_news_id_seq, news_embeddings, milvus_auto_id, last,
                   history_rows, topic, adapterVars, connVars, auxVars>>

\* The task writes the value it read plus its count, and returns.
store_counter(t) ==
    /\ tasks[t].pc = "loaded"
    /\ stats' = [stats EXCEPT ![counter_of(tasks[t].op)] = tasks[t].loaded + tasks[t].count]
    /\ applied' = [applied EXCEPT ![counter_of(tasks[t].op)] = @ + tasks[t].count]
    /\ tasks' = [tasks EXCEPT ![t] = idle_task]
    /\ UNCHANGED <<calls, pc, pg_failed_tx, bitcoin_prices, whale_transactions,
                   crypto_news, crypto_news_id_seq, news_embeddings, milvus_auto_id, last,
                   history_rows, topic, adapterVars, connVars, auxVars>>

InitTracker == InitTopic("news") /\ crypto_news = {}
NextTracker == \E t \in Tasks : load_counter(t) \/ store_counter(t)
SpecTracker == InitTracker /\ [][NextTracker]_vars


(***************************************************************************)
(* The scheduler loop of main() (kafka_producers.py 180-204).  main()      *)
(* registers the three polls with schedule.every(5/10/15).minutes.do(...), *)
(* calls each poll once itself, and then loops                             *)
(*     while True: schedule.run_pending(); time.sleep(1)                   *)
(* in the one thread of the process.  run_pending() calls the due jobs one *)
(* after the other, earliest first; a job's next run is set when its call  *)
(* returns, to the time of the return plus its interval.                   *)
(***************************************************************************)
MaxTime == 30

Jobs == <<"price", "whale", "news">>
JobNames == Range(Jobs)

\* schedule.every(5).minutes / every(10).minutes / every(15).minutes
every == [price |-> 5, whale |-> 10, news |-> 15]

\* The time step of the model: the shortest interval.
Tick == every.price

position(j) == CHOOSE i \in DOMAIN Jobs : Jobs[i] = j

\* job.should_run: datetime.now() >= self.next_run
should_run(j) == now >= next_run[j]

\* sorted(runnable_jobs): by next_run, equal times in the order of registration
runs_before(j, k) ==
    \/ next_run[j] < next_run[k]
    \/ next_run[j] = next_run[k] /\ position(j) < position(k)

\* main() calls the next of its three direct polls (lines 191-193).
initial_poll ==
    /\ running = no_poll
    /\ startup # <<>>
    /\ running' = [job |-> Head(startup), scheduled |-> FALSE]
    /\ startup' = Tail(startup)
    /\ UNCHANGED <<now, next_run, coreVars, shareVars, requestVars, fetchVars, monitorVars, lateVars>>

\* run_pending() calls the earliest due job; the call is made in the loop's thread.
start_poll ==
    /\ running = no_poll
    /\ startup = <<>>
    /\ \E j \in JobNames :
         /\ should_run(j)
         /\ \A k \in JobNames \ {j} : should_run(k) => runs_before(j, k)
         /\ running' = [job |-> j, scheduled |-> TRUE]
    /\ UNCHANGED <<now, next_run, startup, coreVars, shareVars, requestVars, fetchVars, monitorVars, lateVars>>

\* The poll in progress returns (every poll catches its exceptions); a job started by
\* schedule gets its next run time.
finish_poll ==
    /\ running # no_poll
    /\ next_run' = IF running.scheduled
                   THEN [next_run EXCEPT ![running.job] = now + every[running.job]]
                   ELSE next_run
    /\ running' = no_poll
    /\ UNCHANGED <<now, startup, coreVars, shareVars, requestVars, fetchVars, monitorVars, lateVars>>

\* Time passes while a poll is in progress (a slow fetch, a wait after a rate-limit
\* response, future.get(timeout=10) per message), or while the loop sleeps because
\* nothing is due.
time_passes ==
    /\ now + Tick <= MaxTime
    /\ \/ running # no_poll
       \/ startup = <<>> /\ \A j \in JobNames : ~ should_run(j)
    /\ now' = now + Tick
    /\ UNCHANGED <<next_run, running, startup, coreVars, shareVars, requestVars, fetchVars, monitorVars, lateVars>>

InitScheduler ==
    /\ adapter = "news" /\ last_processed = {} /\ polls = 0 /\ cycles = <<>>
    /\ last_poll = poll_record("none", {}, <<>>) /\ InitProcessor /\ crypto_news = {}
    /\ topic = "news"
    /\ conn_target = "bus" /\ conn_attempts = <<"ok">> /\ conn_sleeps = 0
    /\ conn_state = "connected"
    /\ tasks = [t \in 1..NumTasks |-> [pc |-> "idle", op |-> "none", count |-> 0, loaded |-> 0]]
    /\ applied = NewStats
    /\ now = 0 /\ next_run = every /\ running = no_poll /\ startup = Jobs
    /\ IdleShare /\ IdleRequest /\ IdleFetch /\ IdleMonitor /\ IdleLate
NextScheduler == initial_poll \/ start_poll \/ finish_poll \/ time_passes
SpecScheduler == InitScheduler /\ [][NextScheduler]_vars


(***************************************************************************)
(* The three sink callbacks on the one connection.  setup_postgres_        *)
(* connection opens a single psycopg2 connection, self.pg_conn; the three  *)
(* store_* handlers registered by sink_to (lines 496-498) and              *)
(* process_historical_data all open their cursor on it and call            *)
(* self.pg_conn.commit() / self.pg_conn.rollback().  A psycopg2 connection *)
(* has one transaction: commit() and rollback() act on every statement     *)
(* executed on it since the last commit or rollback, whoever executed it.  *)
(* No lock or queue in data_processor.py orders the handlers; a handler    *)
(* is modelled as a task of its own.                                       *)
(***************************************************************************)
\* The rows a batch of topic t writes (batch k of the behaviour).
batch_rows(t, k) == {[topic |-> t, batch |-> k]}

rows_of(t, rows) == {r \in rows : r.topic = t}

\* execute_batch(cursor, query, [...]) / the cursor.execute loop of store_news
execute_statements(t) ==
    /\ writer[t] = "idle"
    /\ calls < MaxCalls
    /\ calls' = calls + 1
    /\ open_tx' = open_tx \cup batch_rows(t, calls + 1)
    /\ writer' = [writer EXCEPT ![t] = "executed"]
    /\ UNCHANGED <<durable, conn_op, stats, pc, pg_failed_tx, bitcoin_prices,
                   whale_transactions, crypto_news, crypto_news_id_seq, news_embeddings,
                   milvus_auto_id, last, history_rows, topic, adapterVars, connVars,
                   trackerVars, schedVars, requestVars, fetchVars, monitorVars, lateVars>>

\* self.pg_conn.commit()
commit(t) ==
    /\ writer[t] = "executed"
    /\ durable' = durable \cup open_tx
    /\ open_tx' = {}
    /\ conn_op' = [by |-> t, kind |-> "commit", rows |-> open_tx]
    /\ writer' = [writer EXCEPT ![t] = "idle"]
    /\ UNCHANGED <<coreVars, schedVars, requestVars, fetchVars, monitorVars, lateVars>>

\* except Exception: ... self.pg_conn.rollback()
rollback_connection(t) ==
    /\ writer[t] = "executed"
    /\ open_tx' = {}
    /\ conn_op' = [by |-> t, kind |-> "rollback", rows |-> open_tx]
    /\ writer' = [writer EXCEPT ![t] = "idle"]
    /\ UNCHANGED <<durable, coreVars, schedVars, requestVars, fetchVars, monitorVars, lateVars>>

InitShared ==
    /\ adapter = "news" /\ last_processed = {} /\ polls = 0 /\ cycles = <<>>
    /\ last_poll = poll_record("none", {}, <<>>) /\ InitProcessor /\ crypto_news = {}
    /\ topic = "news"
    /\ conn_target = "stores" /\ conn_attempts = <<"ok">> /\ conn_sleeps = 0
    /\ conn_state = "connected"
    /\ tasks = [t \in 1..NumTasks |-> [pc |-> "idle", op |-> "none", count |-> 0, loaded |-> 0]]
    /\ applied = NewStats
    /\ IdleSched /\ IdleShare /\ IdleRequest /\ IdleFetch /\ IdleMonitor /\ IdleLate
NextShared ==
    \E t \in Topics : execute_statements(t) \/ commit(t) \/ rollback_connection(t)
SpecShared == InitShared /\ [][NextShared]_vars


(***************************************************************************)
(* _make_request of the price collector (price_collector.py 30-57) and of  *)
(* the transaction collector (transaction_collector.py 22-38).  One action *)
(* is one session.get with the handling of its outcome.                    *)
(***************************************************************************)
MaxDepth == 4      \* nested _make_request calls the interpreter allows (recursion limit)

max_chunks == 5
retries == 3

\* What session.get(...) followed by raise_for_status() and json() can end in:
\* a response with a status, no response at all (ConnectionError, Timeout), or an
\* exception that is not a RequestException.
Statuses == {200, 429, 500}
Upstream ==
    {[kind |-> "response", status |-> c] : c \in Statuses}
      \cup {[kind |-> "no_response", status |-> 0], [kind |-> "unexpected", status |-> 0]}
rate_limited == [kind |-> "response", status |-> 429]

\* raise_for_status() raises HTTPError for 400 <= status < 600
raise_for_status(r) == r.kind = "response" /\ r.status >= 400

\* bool(response): requests.Response.__bool__ returns self.ok, which is False exactly
\* when raise_for_status() would raise; bool(None) is False.
truth_of_response(r) == r.kind = "response" /\ ~ raise_for_status(r)

min(a, b) == IF a <= b THEN a ELSE b

\* price_collector.py 44-49: the wait after a RequestException on `attempt`
\*   if hasattr(e, 'response') and e.response and e.response.status_code == 429:
\*       time.sleep(min(60 * (attempt + 1), 300))
\*   elif attempt < retries - 1: time.sleep(2 * (attempt + 1))
price_wait(r, attempt) ==
    IF truth_of_response(r) /\ r.status = 429
    THEN min(60 * (attempt + 1), 300)
    ELSE IF attempt < retries - 1 THEN 2 * (attempt + 1) ELSE 0

\* price_collector.py 50-53: the wait after any other exception
price_wait_unexpected(attempt) == IF attempt < retries - 1 THEN 2 ELSE 0

\* One iteration of `for attempt in range(retries)`; `return None` follows the last.
price_request_attempt ==
    LET attempt == Len(req_attempts) IN
    /\ req_collector = "price"
    /\ req_state = "calling"
    /\ attempt \in range(retries)
    /\ \E r \in Upstream :
         /\ req_attempts' = Append(req_attempts, r)
         /\ IF r.kind = "response" /\ ~ raise_for_status(r)
            THEN /\ req_state' = "returned" /\ req_result' = "json"
                 /\ UNCHANGED req_waits
            ELSE /\ req_waits' = Append(req_waits,
                                   IF r.kind = "unexpected" THEN price_wait_unexpected(attempt)
                                   ELSE price_wait(r, attempt))
                 /\ req_state' = IF attempt + 1 \in range(retries) THEN "calling"
                                 ELSE "returned"
                 /\ req_result' = "None"
    /\ UNCHANGED <<req_collector, coreVars, schedVars, shareVars, fetchVars, monitorVars, lateVars>>

\* transaction_collector.py 26-38: one try of _make_request; after a 429 it sleeps 60
\* seconds and calls itself.  A nested call beyond the interpreter's limit raises
\* RecursionError, which no frame catches.
tx_request_attempt ==
    LET depth == Len(req_attempts) IN
    /\ req_collector = "tx"
    /\ req_state = "calling"
    /\ IF depth >= MaxDepth
       THEN /\ req_state' = "raised"
            /\ UNCHANGED <<req_attempts, req_waits, req_result>>
       ELSE \E r \in Upstream :
              /\ req_attempts' = Append(req_attempts, r)
              /\ IF r.kind = "response" /\ ~ raise_for_status(r)
                 THEN req_state' = "returned" /\ req_result' = "json" /\ UNCHANGED req_waits
                 ELSE IF r.kind = "unexpected"
                 THEN req_state' = "raised" /\ UNCHANGED <<req_waits, req_result>>
                 ELSE IF r.kind = "response" /\ r.status = 429
                 THEN /\ req_waits' = Append(req_waits, 60)
                      /\ UNCHANGED <<req_state, req_result>>
                 ELSE req_state' = "returned" /\ req_result' = "None" /\ UNCHANGED req_waits
    /\ UNCHANGED <<req_collector, coreVars, schedVars, shareVars, fetchVars, monitorVars, lateVars>>

InitRequest ==
    /\ adapter = "news" /\ last_processed = {} /\ polls = 0 /\ cycles = <<>>
    /\ last_poll = poll_record("none", {}, <<>>) /\ InitProcessor /\ crypto_news = {}
    /\ topic = "news"
    /\ conn_target = "bus" /\ conn_attempts = <<"ok">> /\ conn_sleeps = 0
    /\ conn_state = "connected"
    /\ tasks = [t \in 1..NumTasks |-> [pc |-> "idle", op |-> "none", count |-> 0, loaded |-> 0]]
    /\ applied = NewStats
    /\ IdleSched /\ IdleShare /\ IdleFetch /\ IdleMonitor /\ IdleLate
    /\ req_collector \in {"price", "tx"}
    /\ req_attempts = <<>> /\ req_waits = <<>> /\ req_state = "calling" /\ req_result = "None"
NextRequest == price_request_attempt \/ tx_request_attempt
SpecRequest == InitRequest /\ [][NextRequest]_vars


(***************************************************************************)
(* The fetch loops of the collectors: get_whale_transactions               *)
(* (transaction_collector.py 40-98) and get_historical_news                *)
(* (news_collector.py 47-104).  One action is one iteration of the         *)
(* `while True` loop: a page request and the scan of its items.            *)
(***************************************************************************)
MaxFeed == 4       \* items upstream holds
MaxSends == 4      \* send_message calls in one run
MaxDay == 6        \* start and end dates are days 0..MaxDay
MaxChunkDay == 2   \* days in one chunk of daily data (2000 in the code)
MaxChunkHour == 1  \* days in one chunk of other data (30 in the code)
MaxPage == 2       \* items in one page (`limit`)

\* An item upstream: is its time >= start_date, and does it pass the feed's filter
\* (_contains_keywords; the transaction feed has no filter of its own).
FeedItems == [fresh : BOOLEAN, relevant : BOOLEAN]
Feeds(c) ==
    IF c = "tx" THEN SeqsUpTo({i \in FeedItems : i.relevant}, MaxFeed)
    ELSE SeqsUpTo(FeedItems, MaxFeed)

\* Faulty variant: every request asks for the first page.
page_positions_first_page(feed, p) == {i \in DOMAIN feed : i <= MaxPage}

\* The positions of the feed that page number p (1, 2, ...) holds.
page_positions(feed, p) ==
    {i \in DOMAIN feed : (p - 1) * MaxPage < i /\ i <= p * MaxPage}

\* Faulty variant: an item older than start_date does not end the scan.
first_old_never(feed, positions) == Len(feed) + 1

\* if tx_time < start_date: return ... / if pub_date < start_date: return ...
\* The first position of the page whose item is older than start_date, or one past
\* the feed when the page has none.
first_old(feed, positions) ==
    IF \E i \in positions : ~ feed[i].fresh
    THEN CHOOSE i \in positions : ~ feed[i].fresh /\ \A j \in positions : ~ feed[j].fresh => i <= j
    ELSE Len(feed) + 1

\* The positions the scan of a page appends, lowest first.
RECURSIVE ascending(_)
ascending(S) ==
    IF S = {} THEN <<>>
    ELSE LET m == CHOOSE x \in S : \A y \in S : x <= y IN <<m>> \o ascending(S \ {m})

appended(feed, positions) ==
    ascending({i \in positions : i < first_old(feed, positions) /\ feed[i].relevant})

\* One pass through the loop body.  `request_fails`: _make_request returned None (or
\* an answer without the data key).
fetch_page_step ==
    /\ fetch_state = "fetching"
    /\ \E request_fails \in BOOLEAN :
         LET p == fetch_page + 1
             positions == page_positions(fetch_feed, p)
         IN /\ fetch_page' = p
            /\ IF request_fails
               THEN fetch_state' = "failed" /\ UNCHANGED fetch_items
               ELSE IF positions = {}
               THEN fetch_state' = "exhausted" /\ UNCHANGED fetch_items
               ELSE /\ fetch_items' = fetch_items \o appended(fetch_feed, positions)
                    /\ fetch_state' =
                         IF first_old(fetch_feed, positions) <= Len(fetch_feed) THEN "boundary"
                         ELSE IF fetch_collector = "tx" /\ Cardinality(positions) < MaxPage
                         THEN "exhausted"
                         ELSE "fetching"
    /\ UNCHANGED <<fetch_collector, fetch_feed, coreVars, schedVars, shareVars, requestVars,
                   monitorVars, lateVars>>

InitFetch ==
    /\ adapter = "news" /\ last_processed = {} /\ polls = 0 /\ cycles = <<>>
    /\ last_poll = poll_record("none", {}, <<>>) /\ InitProcessor /\ crypto_news = {}
    /\ topic = "news"
    /\ conn_target = "bus" /\ conn_attempts = <<"ok">> /\ conn_sleeps = 0
    /\ conn_state = "connected"
    /\ tasks = [t \in 1..NumTasks |-> [pc |-> "idle", op |-> "none", count |-> 0, loaded |-> 0]]
    /\ applied = NewStats
    /\ IdleSched /\ IdleShare /\ IdleRequest /\ IdleMonitor /\ IdleLate
    /\ fetch_collector \in {"tx", "news"}
    /\ fetch_feed \in Feeds(fetch_collector)
    /\ fetch_page = 0 /\ fetch_items = <<>> /\ fetch_state = "fetching"
NextFetch == fetch_page_step
SpecFetch == InitFetch /\ [][NextFetch]_vars


(***************************************************************************)
(* ProgressMonitor (data_processor.py 94-127).  start() runs _monitor_loop *)
(* in a daemon thread:  while self.running: _save_progress(); sleep(10).   *)
(* stop() sets self.running = False, waits for the thread with             *)
(* join(timeout=2) and then calls _save_progress() itself.  _save_progress *)
(* builds the snapshot (get_stats) and then writes the file; the two       *)
(* threads share no lock.  run() calls stop() in its finally clause, after *)
(* the last counter update of the process.                                 *)
(***************************************************************************)
\* The main thread updates a counter (here: record_error) before stop() is called.
main_updates ==
    /\ stop_pc = "not_called"
    /\ calls < MaxCalls
    /\ calls' = calls + 1
    /\ stats' = record_error(stats)
    /\ UNCHANGED <<monitorVars, pc, pg_failed_tx, bitcoin_prices, whale_transactions,
                   crypto_news, crypto_news_id_seq, news_embeddings, milvus_auto_id, last,
                   history_rows, topic, adapterVars, connVars, trackerVars, schedVars,
                   shareVars, requestVars, fetchVars, lateVars>>

monitor_frame == <<coreVars, schedVars, shareVars, requestVars, fetchVars, lateVars>>

\* while self.running:
loop_check ==
    /\ loop_pc = "check"
    /\ loop_pc' = IF mon_running THEN "get_stats" ELSE "ended"
    /\ UNCHANGED <<mon_running, loop_stats, stop_pc, stop_stats, progress_file, monitor_frame>>

\* stats = self.stats.get_stats()   (loop thread)
loop_get_stats ==
    /\ loop_pc = "get_stats"
    /\ loop_stats' = stats
    /\ loop_pc' = "dump"
    /\ UNCHANGED <<mon_running, stop_pc, stop_stats, progress_file, monitor_frame>>

\* with open(self.progress_file, 'w') as f: json.dump(stats, f)   (loop thread)
loop_dump ==
    /\ loop_pc = "dump"
    /\ progress_file' = loop_stats
    /\ loop_pc' = "sleep"
    /\ UNCHANGED <<mon_running, loop_stats, stop_pc, stop_stats, monitor_frame>>

\* time.sleep(10) returns
loop_wakes ==
    /\ loop_pc = "sleep"
    /\ loop_pc' = "check"
    /\ UNCHANGED <<mon_running, loop_stats, stop_pc, stop_stats, progress_file, monitor_frame>>

\* stop(): self.running = False
stop_called ==
    /\ stop_pc = "not_called"
    /\ mon_running' = FALSE
    /\ stop_pc' = "join"
    /\ UNCHANGED <<loop_pc, loop_stats, stop_stats, progress_file, monitor_frame>>

\* self.thread.join(timeout=2) returns: the thread has ended, or two seconds are over.
join_returns ==
    /\ stop_pc = "join"
    /\ stop_pc' = "get_stats"
    /\ UNCHANGED <<mon_running, loop_pc, loop_stats, stop_stats, progress_file, monitor_frame>>

\* stats = self.stats.get_stats()   (stop)
stop_get_stats ==
    /\ stop_pc = "get_stats"
    /\ stop_stats' = stats
    /\ stop_pc' = "dump"
    /\ UNCHANGED <<mon_running, loop_pc, loop_stats, progress_file, monitor_frame>>

\* json.dump(stats, f)   (stop); stop() returns
stop_dump ==
    /\ stop_pc = "dump"
    /\ progress_file' = stop_stats
    /\ stop_pc' = "returned"
    /\ UNCHANGED <<mon_running, loop_pc, loop_stats, stop_stats, monitor_frame>>

InitMonitor ==
    /\ adapter = "news" /\ last_processed = {} /\ polls = 0 /\ cycles = <<>>
    /\ last_poll = poll_record("none", {}, <<>>) /\ InitProcessor /\ crypto_news = {}
    /\ topic = "news"
    /\ conn_target = "stores" /\ conn_attempts = <<"ok">> /\ conn_sleeps = 0
    /\ conn_state = "connected"
    /\ tasks = [t \in 1..NumTasks |-> [pc |-> "idle", op |-> "none", count |-> 0, loaded |-> 0]]
    /\ applied = NewStats
    /\ IdleSched /\ IdleShare /\ IdleRequest /\ IdleFetch /\ IdleLate
    /\ mon_running = TRUE /\ loop_pc = "check" /\ stop_pc = "not_called"
    /\ loop_stats = NewStats /\ stop_stats = NewStats /\ progress_file = "no_file"
NextMonitor ==
    \/ main_updates
    \/ loop_check \/ loop_get_stats \/ loop_dump \/ loop_wakes
    \/ stop_called \/ join_returns \/ stop_get_stats \/ stop_dump
SpecMonitor == InitMonitor /\ [][NextMonitor]_vars

(***************************************************************************)
(* Publish and consume order.  send_message hands one event to the client, *)
(* flushes and waits for the result before it returns, so a producer has   *)
(* at most one event in flight; the producers run in the one thread of     *)
(* main().  An event without a key goes to any partition of its topic; the *)
(* broker appends it to that partition's log or the send fails.  The       *)
(* reader of a topic hands the events of a partition over in log order,    *)
(* the partitions of a topic in any interleaving, and the handler walks    *)
(* the list it is given from first to last.                                *)
(***************************************************************************)
event(t, id) == [topic |-> t, id |-> id]

\* What one send_message call can come to: acknowledged, failed, or reported
\* failed (the result did not arrive) although the broker appended the event.
SendOutcomes ==
    {[ok |-> TRUE, appended |-> TRUE], [ok |-> FALSE, appended |-> FALSE],
     [ok |-> FALSE, appended |-> TRUE]}

send_message(t) ==
    /\ published < MaxSends
    /\ \E o \in SendOutcomes, p \in partitions(t) :
         /\ published' = published + 1
         /\ send_log' = Append(send_log, [topic |-> t, id |-> published + 1, ok |-> o.ok,
                                           appended |-> o.appended])
         /\ partition_log' =
              IF o.appended
              THEN [partition_log EXCEPT ![t][p] = Append(@, event(t, published + 1))]
              ELSE partition_log
    /\ UNCHANGED <<read_offset, processed, coreVars, schedVars, shareVars, requestVars,
                   fetchVars, monitorVars, chunkVars>>

read_batch(t) ==
    \E p \in partitions(t), n \in 1..MaxBatch :
      /\ read_offset[t][p] < Len(partition_log[t][p])
      /\ LET upto == min(read_offset[t][p] + n, Len(partition_log[t][p]))
         IN  /\ processed' = processed \o SubSeq(partition_log[t][p], read_offset[t][p] + 1, upto)
             /\ read_offset' = [read_offset EXCEPT ![t][p] = upto]
      /\ UNCHANGED <<published, send_log, partition_log, coreVars, schedVars, shareVars,
                     requestVars, fetchVars, monitorVars, chunkVars>>

InitOrder ==
    /\ adapter = "news" /\ last_processed = {} /\ polls = 0 /\ cycles = <<>>
    /\ last_poll = poll_record("none", {}, <<>>) /\ InitProcessor /\ crypto_news = {}
    /\ topic = "news"
    /\ conn_target = "bus" /\ conn_attempts = <<"ok">> /\ conn_sleeps = 0
    /\ conn_state = "connected"
    /\ tasks = [t \in 1..NumTasks |-> [pc |-> "idle", op |-> "none", count |-> 0, loaded |-> 0]]
    /\ applied = NewStats
    /\ InitAux

NextOrder == \E t \in Topics : send_message(t) \/ read_batch(t)
SpecOrder == InitOrder /\ [][NextOrder]_vars

(***************************************************************************)
(* get_extended_historical_data (price_collector.py 111-177).  Dates are   *)
(* whole days.  A daily range of at most the daily chunk size is fetched   *)
(* in one call of get_historical_prices; any other range goes through the  *)
(* chunk loop.  MaxChunkDay and MaxChunkHour stand for the chunk sizes     *)
(* 2000 and 30 of the code.  get_historical_prices takes no end date, so   *)
(* what a chunk holds is any frame the upstream may answer with: a frame   *)
(* is modelled by the sequence of its timestamps.                          *)
(***************************************************************************)
Intervals == {"day", "hour"}
Stamps == {1, 2}

\* The frames get_historical_prices can return: empty (failed request, empty data
\* set) or rows in the order of the answer.
ChunkResults == SeqsUpTo(Stamps, 2)

\* max_chunk = 2000 if interval.lower() in ['day', 'daily'] else 30
max_chunk(interval) == IF interval = "day" THEN MaxChunkDay ELSE MaxChunkHour

\* (end - start).days + 1
days_diff(start, end) == (end - start) + 1

\* Faulty variant: no row is dropped.
drop_duplicates_keeps_all(frame) == frame

\* all_data.drop_duplicates(subset=['timestamp']): the first row of each timestamp
\* stays, in frame order.
drop_duplicates(frame) ==
    LET keep == {i \in DOMAIN frame : \A j \in 1..(i - 1) : frame[j] # frame[i]}
    IN [k \in 1..Cardinality(keep) |-> frame[ascending(keep)[k]]]

\* .sort_values('timestamp'): the rows by ascending timestamp.
RECURSIVE sort_values(_)
sort_values(frame) ==
    IF frame = <<>> THEN <<>>
    ELSE LET i == CHOOSE i \in DOMAIN frame : \A j \in DOMAIN frame : frame[i] <= frame[j]
         IN <<frame[i]>> \o
            sort_values([k \in 1..(Len(frame) - 1) |-> IF k < i THEN frame[k] ELSE frame[k + 1]])

chunk_frame == <<coreVars, schedVars, shareVars, requestVars, fetchVars, monitorVars,
                 orderVars>>

\* Lines 139-149: the one-call return for a daily range of at most the chunk size,
\* otherwise the set-up of the loop.
enter_chunks ==
    /\ chunk_pc = "enter"
    /\ IF chunk_interval = "day" /\ days_diff(chunk_start, chunk_end) <= MaxChunkDay
       THEN /\ chunk_pc' = "returned_one_call"
            /\ \E frame \in ChunkResults : chunk_result' = frame
            /\ UNCHANGED <<current_end, chunks_processed, all_data>>
       ELSE /\ chunk_pc' = "loop"
            /\ current_end' = chunk_end /\ chunks_processed' = 0 /\ all_data' = <<>>
            /\ UNCHANGED chunk_result
    /\ UNCHANGED <<chunk_interval, chunk_start, chunk_end, chunk_frame>>

\* One pass through the body of the while loop (lines 151-169).
chunk_iteration ==
    /\ chunk_pc = "loop"
    /\ current_end >= chunk_start /\ chunks_processed < max_chunks
    /\ LET days == min((current_end - chunk_start) + 1, max_chunk(chunk_interval)) IN
       IF days <= 0
       THEN /\ chunk_pc' = "after_loop"      \* break
            /\ UNCHANGED <<current_end, chunks_processed, all_data>>
       ELSE \E chunk_data \in ChunkResults :
              /\ IF chunk_data # <<>>
                 THEN /\ all_data' = chunk_data \o all_data
                      /\ chunks_processed' = chunks_processed + 1
                 ELSE UNCHANGED <<all_data, chunks_processed>>
              /\ current_end' = current_end - days
              /\ UNCHANGED chunk_pc
    /\ UNCHANGED <<chunk_interval, chunk_start, chunk_end, chunk_result, chunk_frame>>

\* The while test fails; lines 171-177.
return_all_data ==
    /\ chunk_pc \in {"loop", "after_loop"}
    /\ chunk_pc = "loop" => ~ (current_end >= chunk_start /\ chunks_processed < max_chunks)
    /\ chunk_pc' = "returned"
    /\ chunk_result' = IF all_data # <<>> THEN sort_values(drop_duplicates(all_data))
                       ELSE all_data
    /\ UNCHANGED <<chunk_interval, chunk_start, chunk_end, current_end, chunks_processed,
                   all_data, chunk_frame>>

InitChunks ==
    /\ adapter = "news" /\ last_processed = {} /\ polls = 0 /\ cycles = <<>>
    /\ last_poll = poll_record("none", {}, <<>>) /\ InitProcessor /\ crypto_news = {}
    /\ topic = "news"
    /\ conn_target = "bus" /\ conn_attempts = <<"ok">> /\ conn_sleeps = 0
    /\ conn_state = "connected"
    /\ tasks = [t \in 1..NumTasks |-> [pc |-> "idle", op |-> "none", count |-> 0, loaded |-> 0]]
    /\ applied = NewStats
    /\ IdleSched /\ IdleShare /\ IdleRequest /\ IdleFetch /\ IdleMonitor /\ IdleOrder
    /\ chunk_pc = "enter"
    /\ chunk_interval \in Intervals
    /\ chunk_start \in 0..MaxDay /\ chunk_end \in 0..MaxDay
    /\ current_end = 0 /\ chunks_processed = 0 /\ all_data = <<>> /\ chunk_result = <<>>

NextChunks == enter_chunks \/ chunk_iteration \/ return_all_data
SpecChunks == InitChunks /\ [][NextChunks]_vars

(***************************************************************************)
connection_failures == {"KafkaError", "postgres_failed", "milvus_failed"}

C16_BoundedRetries ==
    LET n == Len(conn_attempts)
        failed == {i \in 1..n : conn_attempts[i] \in connection_failures}
    IN  /\ n <= max_retries
        /\ \A i \in 1..n : conn_attempts[i] = "ok" => i = n
        /\ conn_state = "connected" <=> (n > 0 /\ conn_attempts[n] = "ok")
        /\ \A i \in 1..n : i < n => conn_attempts[i] \in connection_failures
        /\ (failed = 1..n /\ n < max_retries) => conn_state = "connecting"
        /\ (failed = 1..n /\ n = max_retries) => conn_state = "fatal"
        /\ conn_state = "connecting" => conn_sleeps = n
        /\ conn_state = "fatal" =>
             \/ failed = 1..n /\ n = max_retries /\ conn_sleeps = max_retries - 1
             \/ conn_attempts[n] = "other_exception"

C16_Witness ==
    /\ conn_state = "fatal"
    /\ Len(conn_attempts) = max_retries
    /\ \A i \in 1..max_retries : conn_attempts[i] \in connection_failures
    /\ conn_target = "stores"


(***************************************************************************)
(* C17.  A send_message that fails does not end the poll, its event is not *)
(* sent again by that poll, and the error counter grows by one for each    *)
(* failed send.                                                            *)
(***************************************************************************)
failed_sends(p) == {i \in 1..Len(p.sends) : ~ p.sends[i].ok}

C17_AsStated ==
    [][(polls' = polls + 1 /\ failed_sends(last_poll') # {}) =>
         /\ last_poll'.status \in {"done", "raised"}
         /\ stats'.errors = stats.errors + Cardinality(failed_sends(last_poll'))]_vars

(***************************************************************************)
(* C18.  A poll whose publish loop runs to its end attempts exactly one    *)
(* publish for each new key, whether or not an earlier publish of the poll *)
(* failed.                                                                 *)
(***************************************************************************)
sends_of(p, key) == {i \in 1..Len(p.sends) : p.sends[i].key = key}

C18_AsStated ==
    [][(polls' = polls + 1 /\ last_poll'.status = "done") =>
         \A key \in last_poll'.keys \ last_processed :
             Cardinality(sends_of(last_poll', key)) = 1]_vars


(***************************************************************************)
(* C19.  Whenever no update is in progress, each counter equals its        *)
(* initial value plus the sum of the increments of all finished updates,   *)
(* whatever the interleaving of the tasks was.                             *)
(***************************************************************************)
C19_AsStated ==
    (\A t \in Tasks : tasks[t].pc = "idle") =>
        \A c \in DOMAIN NewStats : stats[c] = NewStats[c] + applied[c]

(***************************************************************************)
(* C20.  No step of a process, with several tasks updating the counters,   *)
(* makes any of the five counters smaller.                                 *)
(***************************************************************************)
C20_AsStated ==
    [][\A c \in DOMAIN NewStats : stats'[c] >= stats[c]]_vars


(***************************************************************************)
(* C21.  A poll that is due starts on its own schedule even while the poll *)
(* of another adapter is in progress: while a poll is in progress no other *)
(* job is past its run time.                                               *)
(***************************************************************************)
C21_AsStated ==
    \A j \in JobNames :
        running.job \notin {j, "none"} => now <= next_run[j]


(***************************************************************************)
(* C22.  A commit or rollback issued for the batch of one topic commits    *)
(* or discards rows of that topic's batch only: never the uncommitted rows *)
(* of a batch of another topic.                                            *)
(***************************************************************************)
C22_AsStated ==
    conn_op.by # "none" => conn_op.rows = rows_of(conn_op.by, conn_op.rows)


(***************************************************************************)
(* C23.  Under an upstream that answers every request with HTTP 429, a     *)
(* _make_request call of the price collector and of the transaction        *)
(* collector ends after a bounded number of requests, and it ends by       *)
(* returning the failure value None.                                       *)
(***************************************************************************)
always_rate_limited == \A i \in DOMAIN req_attempts : req_attempts[i] = rate_limited

C23_AsStated ==
    always_rate_limited =>
        /\ Len(req_attempts) < MaxDepth
        /\ req_state # "calling" => (req_state = "returned" /\ req_result = "None")

(***************************************************************************)
(* C24.  In the price collector's _make_request the wait after a 429 on    *)
(* attempt k is min(60*(k+1), 300) seconds: at most 300 and not shorter    *)
(* than the wait after another failure on that attempt; the call makes at  *)
(* most `retries` requests and has returned None when all of them failed.  *)
(***************************************************************************)
C24_AsStated ==
    req_collector = "price" =>
        /\ Len(req_attempts) <= retries
        /\ \A k \in DOMAIN req_waits :
             /\ req_attempts[k] = rate_limited => req_waits[k] = min(60 * k, 300)
             /\ req_waits[k] <= 300
        /\ (Len(req_waits) = retries) => (req_state = "returned" /\ req_result = "None")


(***************************************************************************)
(* C25.  A fetch returns only items whose time is >= start_date and none   *)
(* that follows the first older item in source order; when the fetch ends  *)
(* at that item, it returns every item before it that passes the feed's    *)
(* filter, in source order.                                                *)
(***************************************************************************)
\* The position of the first item of the feed older than start_date (one past the feed
\* when there is none).
boundary_of(feed) ==
    LET old == {i \in DOMAIN feed : ~ feed[i].fresh} IN
    IF old = {} THEN Len(feed) + 1 ELSE CHOOSE i \in old : \A j \in old : i <= j

C25_LookbackBoundary ==
    LET cut == boundary_of(fetch_feed)
        expected == ascending({i \in DOMAIN fetch_feed : i < cut /\ fetch_feed[i].relevant})
    IN  /\ \A k \in DOMAIN fetch_items :
              fetch_feed[fetch_items[k]].fresh /\ fetch_items[k] < cut
        /\ fetch_state = "boundary" => fetch_items = expected
        /\ fetch_state = "exhausted" => (cut > Len(fetch_feed) /\ fetch_items = expected)

C25_Witness ==
    /\ fetch_state = "boundary"
    /\ fetch_page = 2
    /\ fetch_items # <<>>
    /\ boundary_of(fetch_feed) < Len(fetch_feed)


(***************************************************************************)
(* C26.  Once stop() has returned, the persisted snapshot holds the        *)
(* counter values as of the stop, and stays so: the background loop does   *)
(* not write older values over it.                                         *)
(***************************************************************************)
C26_AsStated ==
    stop_pc = "returned" => progress_file = stats


(***************************************************************************)
(* C27.  End to end: when a batch of one price tick {timestamp T, price P} *)
(* has been consumed, and the database itself did not fail, the table      *)
(* holds exactly one row for T, that row has price P, and prices_processed *)
(* has grown by one (so a second tick for T replaces the price and the     *)
(* counter reaches 2).                                                     *)
(***************************************************************************)
C27_AsStated ==
    [][(/\ calls' = calls + 1 /\ last'.op = "consume"
        /\ Len(last'.messages) = 1 /\ last'.messages[1].json
        /\ last'.db_failed => pg_failed_tx) =>
         LET tick == last'.messages[1]
             rows == {r \in bitcoin_prices' : r.timestamp = tick.timestamp}
         IN /\ Cardinality(rows) = 1
            /\ \A r \in rows : r.price = tick.price
            /\ stats'.prices_processed = stats.prices_processed + 1]_vars


(***************************************************************************)
(* C28.  A poll that fails, in its fetch or in the middle of its publish   *)
(* loop, returns to the scheduler like any other poll and leaves the       *)
(* window at its value before the poll; the next poll of the adapter is    *)
(* computed against that window, so when it runs to its end it publishes   *)
(* every key it fetched that is not in the window, the keys the failed     *)
(* poll had already published among them.                                  *)
(***************************************************************************)
failed_poll(p) == p.status \in {"fetch_error", "raised"}

C28_Step ==
    (polls' = polls + 1) =>
      /\ failed_poll(last_poll') => last_processed' = last_processed
      /\ (failed_poll(last_poll) /\ last_poll'.status = "done") =>
           /\ sent_keys(last_poll') = last_poll'.keys \ last_processed
           /\ sent_keys(last_poll) \cap last_poll'.keys \subseteq sent_keys(last_poll')

C28_FailedPollRetriedNextInterval == [][C28_Step]_vars

C28_Witness ==
    /\ polls = 2 /\ Len(cycles) = 2
    /\ cycles[1].status = "raised"
    /\ cycles[2].status = "done"
    /\ "A" \in cycles[1].keys
    /\ sent_keys(last_poll) = {"A", "B"}
    /\ last_processed = {"A", "B"}


(***************************************************************************)
(* C29.  A reconciliation pass hands to the indexer exactly the stored     *)
(* news rows that have no embedding in the vector index; when it completes *)
(* without counting an error, every stored news row has an embedding.      *)
(***************************************************************************)
without_embedding(table, index) == {cn.id : cn \in {r \in table : ~ \E e \in index : e.news_id = r.id}}

C29_AsStated ==
    [][history_call =>
         /\ {last'.to_indexer[i].id : i \in DOMAIN last'.to_indexer}
              = without_embedding(crypto_news, news_embeddings)
         /\ stats'.errors = stats.errors => without_embedding(crypto_news', news_embeddings') = {}]_vars


(***************************************************************************)
(* C30.  A poll that fetches nothing, or only keys that are already in the *)
(* window, publishes nothing and leaves the window unchanged.  A poll      *)
(* changes the window only if it found a new key, only to the key set it   *)
(* fetched, and only when its publish loop has made an attempt for every   *)
(* new key.                                                                *)
(***************************************************************************)
C30_Step ==
    (polls' = polls + 1) =>
      /\ (last_poll'.keys \subseteq last_processed) =>
           /\ last_poll'.sends = <<>>
           /\ last_processed' = last_processed
      /\ (last_processed' # last_processed) =>
           /\ last_poll'.keys \ last_processed # {}
           /\ last_processed' = last_poll'.keys
           /\ sent_keys(last_poll') = last_poll'.keys \ last_processed

C30_NoNewKeyNoEffect == [][C30_Step]_vars

C30_Witness ==
    /\ polls = 3 /\ Len(cycles) = 3
    /\ cycles[1].status = "done" /\ cycles[1].keys = {"A", "B"}
    /\ cycles[2].status = "no_new" /\ cycles[2].keys = {"A"}
    /\ cycles[3].status = "empty"
    /\ last_poll.sends = <<>>
    /\ last_processed = {"A", "B"}


(***************************************************************************)
(* C31.  A price tick whose optional fields market_cap and volume are      *)
(* present with a null value, as the price adapter publishes it, is parsed *)
(* into a record and, when the database does not fail, stored; it is not   *)
(* counted as malformed.                                                   *)
(***************************************************************************)
as_published(m) ==
    /\ m.json /\ m.timestamp # Null /\ m.price # Null
    /\ m.market_cap = Null /\ m.volume = Null

C31_AsStated ==
    [][(/\ calls' = calls + 1 /\ last'.op = "consume"
        /\ last'.messages # <<>>
        /\ \A i \in DOMAIN last'.messages : as_published(last'.messages[i])) =>
         /\ last'.malformed = 0
         /\ ~ last'.db_failed =>
              \A i \in DOMAIN last'.messages :
                \E r \in bitcoin_prices' : r.timestamp = last'.messages[i].timestamp]_vars


(***************************************************************************)
(* C32: within one topic the events are published one at a time in         *)
(* iteration order, every send_message call has its result before the next *)
(* call is made, and the consumer processes the events of a topic in       *)
(* publish order: the events processed for a topic are, in order, the      *)
(* first appended sends of that topic.      Nothing relates the events of  *)
(* different topics.                                                       *)
(***************************************************************************)
appended_of(t) == SelectSeq(send_log, LAMBDA r : r.topic = t /\ r.appended)

processed_of(t) == SelectSeq(processed, LAMBDA e : e.topic = t)

C32_TopicOrder ==
    /\ Len(send_log) = published
    /\ \A i \in DOMAIN send_log : send_log[i].id = i /\ send_log[i].ok \in BOOLEAN
    /\ \A t \in Topics :
         /\ Len(processed_of(t)) <= Len(appended_of(t))
         /\ \A i \in DOMAIN processed_of(t) : processed_of(t)[i].id = appended_of(t)[i].id

C32_Witness ==
    /\ \E t \in Topics : Len(processed_of(t)) = 2 /\ Len(appended_of(t)) = 2
    /\ \E i \in DOMAIN send_log : ~ send_log[i].ok
    /\ \E i, j \in DOMAIN processed :
         /\ i < j /\ processed[i].topic # processed[j].topic
         /\ processed[i].id > processed[j].id


(***************************************************************************)
(* C33: the result of send_message does not decide what the window         *)
(* records.  A poll that runs to its end records every key it fetched, the *)
(* keys whose send failed among them; and a key that is in the window is   *)
(* not sent by a poll that fetches it again and is still in the window     *)
(* after that poll, so it is not published again while every poll fetches  *)
(* it.                                                                     *)
(***************************************************************************)
failed_keys(p) == {p.sends[i].key : i \in failed_sends(p)}

C33_Step ==
    (polls' = polls + 1) =>
      /\ last_poll'.status = "done" => failed_keys(last_poll') \subseteq last_processed'
      /\ \A k \in last_processed \cap last_poll'.keys :
           k \notin sent_keys(last_poll') /\ k \in last_processed'

C33_FailedPublishRecorded == [][C33_Step]_vars

C33_Witness ==
    /\ polls >= 2 /\ Len(cycles) >= 2
    /\ cycles[Len(cycles) - 1].status = "done" /\ "A" \in cycles[Len(cycles) - 1].keys
    /\ last_poll.status = "done" /\ {"A", "B"} \subseteq last_poll.keys
    /\ "A" \notin sent_keys(last_poll)
    /\ "B" \in failed_keys(last_poll)
    /\ {"A", "B"} \subseteq last_processed


(***************************************************************************)
(* C34: when the indexer fails for the rows a batch has just inserted, the *)
(* rows stay in crypto_news and the batch stays counted in news_processed; *)
(* no step removes a committed row, and a later delivery of a stored link  *)
(* gets no id, is not passed to the indexer and adds no embedding, so the  *)
(* streaming path never creates the embedding that is missing.             *)
(***************************************************************************)
indexer_failed(c) ==
    c.op = "news" /\ c.outcome = "committed" /\ c.index \in IndexerOutcomes \ {"ok"}

C34_Step ==
    /\ (news_call /\ indexer_failed(last')) =>
         /\ \A i \in DOMAIN last'.to_indexer :
              \E r \in crypto_news' :
                r.id = last'.to_indexer[i].id /\ r.link = last'.to_indexer[i].link
         /\ stats'.news_processed = stats.news_processed + last'.n
    /\ crypto_news \subseteq crypto_news'
    /\ news_call =>
         /\ stats'.news_processed >= stats.news_processed
         /\ \A w \in last'.writes :
              w.link \in stored_links =>
                /\ passed_to_indexer(last', w.link) = {}
                /\ \A e \in news_embeddings' \ news_embeddings : e.link # w.link

C34_IndexerFailureKeepsRows == [][C34_Step]_vars

C34_Witness ==
    /\ last.op = "news" /\ last.outcome = "committed"
    /\ \E w \in last.writes : w.link = "l2"
    /\ \A i \in DOMAIN last.to_indexer : last.to_indexer[i].link # "l2"
    /\ \E r \in crypto_news : r.link = "l2"
    /\ \A e \in news_embeddings : e.link # "l2"
    /\ stats.news_processed >= 2 /\ stats.errors >= 1


(***************************************************************************)
(* C35: when a committed news batch holds a link more than once and the    *)
(* link was not stored before, the batch adds exactly one row for the      *)
(* link, with the fields of its first occurrence, and passes exactly one   *)
(* item for the link to the indexer, under the id of that row.             *)
(***************************************************************************)
repeats_a_link(c) == c.n > Cardinality(c.writes)

C35_Step ==
    (news_call /\ last'.outcome = "committed" /\ repeats_a_link(last')) =>
      \A w \in last'.writes :
        w.link \notin stored_links =>
          LET rows == {r \in crypto_news' : r.link = w.link}
              passed == passed_to_indexer(last', w.link)
          IN /\ Cardinality(rows) = 1
             /\ \A r \in rows : same_article(r, w) /\ r \notin crypto_news
             /\ Cardinality(passed) = 1
             /\ \A i \in passed : \A r \in rows : last'.to_indexer[i].id = r.id

C35_RepeatedLinkStoredOnce == [][C35_Step]_vars

C35_Witness ==
    /\ last.op = "news" /\ last.outcome = "committed"
    /\ last.n = 2 /\ Cardinality(last.writes) = 1
    /\ Len(last.to_indexer) = 1 /\ last.to_indexer[1].link = "l2"
    /\ Cardinality({r \in crypto_news : r.link = "l2"}) = 1


(***************************************************************************)
(* C36, as stated: a committed news batch adds the number of its records   *)
(* to news_processed, the records ignored on a conflict included, and adds *)
(* to embeddings_generated the number of vectors it inserted into the      *)
(* index; embeddings_generated never exceeds news_processed.               *)
(***************************************************************************)
C36_AsStated ==
    [][(news_call /\ last'.outcome = "committed") =>
         /\ stats'.news_processed = stats.news_processed + last'.n
         /\ stats'.embeddings_generated =
              stats.embeddings_generated + Cardinality(news_embeddings' \ news_embeddings)
         /\ stats'.embeddings_generated <= stats'.news_processed]_vars


(***************************************************************************)
(* C37: with an upstream that holds finitely many items and answers a      *)
(* request past the end with an empty page, a call of                      *)
(* get_whale_transactions / get_historical_news makes at most one request  *)
(* more than the upstream has pages, every request asks for the page       *)
(* after the one before, and the result holds no item twice.               *)
(***************************************************************************)
pages_of(feed) == (Len(feed) + MaxPage - 1) \div MaxPage

C37_Step ==
    (fetch_page' # fetch_page) =>
      /\ fetch_state = "fetching"
      /\ fetch_page' = fetch_page + 1
      /\ \A i \in DOMAIN fetch_items' :
           i > Len(fetch_items) => fetch_items'[i] \in page_positions(fetch_feed, fetch_page')

C37_FetchTerminates ==
    /\ [](fetch_page <= pages_of(fetch_feed) + 1)
    /\ [](\A i, j \in DOMAIN fetch_items : i < j => fetch_items[i] < fetch_items[j])
    /\ [][C37_Step]_vars

C37_Witness ==
    /\ fetch_collector = "news" /\ fetch_state = "exhausted"
    /\ Len(fetch_feed) = 2 * MaxPage /\ fetch_page = 3
    /\ Len(fetch_items) = Len(fetch_feed)


(***************************************************************************)
(* C38: the chunk loop of get_extended_historical_data terminates: every   *)
(* pass through its body lowers current_end, which the loop test keeps     *)
(* from falling more than one chunk below the start date; at most          *)
(* max_chunks non-empty chunks are accumulated; and the frame returned     *)
(* after the loop has its timestamps in strictly ascending order, so each  *)
(* at most once.                                                           *)
(***************************************************************************)
loop_pass ==
    /\ chunk_pc = "loop" /\ chunk_pc' \in {"loop", "after_loop"}
    /\ <<chunk_pc, current_end, chunks_processed, all_data>>' #
         <<chunk_pc, current_end, chunks_processed, all_data>>

C38_ChunkLoopTerminates ==
    /\ [][loop_pass => current_end' < current_end]_vars
    /\ [](chunk_pc = "loop" =>
            current_end = chunk_end \/ current_end >= chunk_start - 1)
    /\ [](chunks_processed <= max_chunks)
    /\ [](chunk_pc = "returned" =>
            \A i, j \in DOMAIN chunk_result : i < j => chunk_result[i] < chunk_result[j])

C38_Witness ==
    /\ chunk_pc = "returned"
    /\ chunks_processed = max_chunks /\ current_end >= chunk_start
    /\ chunk_end - current_end > max_chunks
    /\ Len(all_data) > Len(chunk_result) /\ Len(chunk_result) = 2
    /\ all_data[1] > all_data[2]

====
